---- MODULE Spec2Model ----
(***************************************************************************)
(* Course-folder review workflow of the CFMS backend                       *)
(* (course_folders/views.py, course_folders/models.py,                     *)
(* course_folders/serializers.py).  One folder of one course offering is   *)
(* modelled together with its audit assignments, its status history, its   *)
(* notifications and its outline snapshots.  Every REST handler of         *)
(* CourseFolderViewSet that the workflow uses is one action.               *)
(***************************************************************************)
EXTENDS Integers, Sequences, FiniteSets, TLC

VARIABLES
    folder,              \* the course_folders row (CourseFolder)
    audit_assignments,   \* audit_assignments rows of the folder, keyed by auditor
    status_history,      \* folder_status_history rows, oldest first
    notifications,       \* notifications rows, oldest first
    outline_snapshots,   \* outline_content_snapshots rows, oldest first
    log_entries,         \* course_log_entries rows of the folder
    components,          \* folder_components rows of the folder (component types)
    assessments,         \* assessments rows of the folder
    coordinators,        \* users with an active CourseCoordinatorAssignment for the course
    response,            \* HTTP status code of the last handler that returned
    inflight             \* requests that have loaded the folder row and not yet saved

vars == <<folder, audit_assignments, status_history, notifications,
          outline_snapshots, log_entries, components, assessments,
          coordinators, response, inflight>>

dbvars == <<folder, audit_assignments, status_history, notifications,
            outline_snapshots, log_entries, components, assessments,
            coordinators>>

(***************************************************************************)
(* Bounds of the model.                                                    *)
(***************************************************************************)
MaxHistory == 3
MaxRoundHistory == 10
MaxCheckpointHistory == 3
MaxConcHistory == 8
MaxInflight == 1
MaxSnapshots == 1

(***************************************************************************)
(* Users.  The owner of the folder is "fac"; "fac2" is another faculty     *)
(* member; "c1" and "c2" can be mapped to the course as coordinators.      *)
(***************************************************************************)
Owner == "fac"
Users == {"fac", "fac2", "c1", "c2", "conv", "hod", "a1", "a2", "admin"}
Auditors == {"a1", "a2"}

Role(u) ==
    CASE u \in {"fac", "fac2"} -> "FACULTY"
      [] u \in {"c1", "c2"}    -> "COORDINATOR"
      [] u = "conv"            -> "CONVENER"
      [] u = "hod"             -> "HOD"
      [] u \in {"a1", "a2"}    -> "AUDIT_MEMBER"
      [] OTHER                 -> "ADMIN"

HasFacultyProfile(u) == u \in {"fac", "fac2", "c1", "c2"}

NoUser == "none"

(***************************************************************************)
(* JSON values of the outline_content document, tagged by their Python     *)
(* type.                                                                   *)
(***************************************************************************)
JNone == [t |-> "none"]
JStr(s) == [t |-> "str", s |-> s]
JInt(n) == [t |-> "int", n |-> n]
JList(l) == [t |-> "list", l |-> l]
JDict(d) == [t |-> "dict", d |-> d]
EmptyMap == [k \in {} |-> JNone]
EmptyDict == JDict(EmptyMap)

\* bool(x) of Python
Truthy(x) ==
    CASE x.t = "none" -> FALSE
      [] x.t = "str"  -> x.s # ""
      [] x.t = "int"  -> x.n # 0
      [] x.t = "list" -> Len(x.l) > 0
      [] x.t = "dict" -> DOMAIN x.d # {}

\* x.get(k) of a Python dict
Get(x, k) == IF x.t = "dict" /\ k \in DOMAIN x.d THEN x.d[k] ELSE JNone

\* a or b of Python
PyOr(a, b) == IF Truthy(a) THEN a ELSE b

\* str(x) of Python for the identifier values the client stores
IntStr(n) ==
    CASE n = 0 -> "0" [] n = 1 -> "1" [] n = 2 -> "2" [] n = 3 -> "3"
      [] n = 4 -> "4" [] n = 5 -> "5" [] n = 6 -> "6" [] n = 7 -> "7"
      [] n = 8 -> "8" [] OTHER -> "9"

PyStr(x) ==
    CASE x.t = "str" -> x.s
      [] x.t = "int" -> IntStr(x.n)
      [] OTHER       -> ""

\* any(x.get(k) for k in keys)
AnyKey(x, keys) == \E k \in keys : Truthy(Get(x, k))

\* x.get(k, default)
GetD(x, k, default) == IF x.t = "dict" /\ k \in DOMAIN x.d THEN x.d[k] ELSE default

(***************************************************************************)
(* Submission validator: CourseFolderViewSet._validate_submission_requirements *)
(* A reason is a code and, for a per-item reason, the 1-based position of  *)
(* the assignment or quiz it is about.                                     *)
(***************************************************************************)
Reason(code) == [code |-> code, idx |-> 0]
ItemReason(code, i) == [code |-> code, idx |-> i]

OutlineKeys == {"courseOutline", "course_outline", "introduction", "objectives",
                "courseDescription", "learningOutcomes", "creditHours", "textbooks"}
MidtermKeys == {"midterm", "midTerm", "midtermPaper", "midtermSolution", "midtermRecords"}
FinalKeys == {"final", "finalExam", "finalPaper", "finalSolution", "finalRecords"}

EmptyFolderReasons == <<Reason("EMPTY_FOLDER")>>

RequiredFirst == 2
RequiredSecond == 4

\* variant: every Submit is validated as a first submission (told apart by
\* C29)
IsSecondSubmissionNever(f) ==
    FALSE

\* the stage test of the validator and of submit
IsSecondSubmission(f) ==
    f.first_activity_completed /\ f.status = "APPROVED_BY_HOD"

\* attendance proof: a component, a sheet on a log entry, or the outline
HasAttendance(outline, logs, comps) ==
    LET has_attendance_component == "ATTENDANCE" \in comps
        has_attendance_in_logs == \E i \in 1..Len(logs) : logs[i].attendance_sheet
        attendance_file_data == GetD(outline, "attendanceFile", EmptyDict)
        in_file == /\ attendance_file_data.t = "dict"
                   /\ AnyKey(attendance_file_data, {"fileUrl", "fileName", "file", "name"})
        has_attendance_in_outline ==
            in_file \/ AnyKey(outline, {"attendance", "attendanceRecord", "attendanceRecords"})
    IN has_attendance_component \/ has_attendance_in_logs \/ has_attendance_in_outline

\* CHECK 5 / CHECK 6: the three-part rule of the midterm or final block
ExamBlockReasons(outline, k1, k2, recordsKey, paperKey, solutionKey, prefix) ==
    LET data == PyOr(GetD(outline, k1, EmptyDict), GetD(outline, k2, EmptyDict))
        records == PyOr(GetD(outline, recordsKey, EmptyDict), GetD(data, "records", EmptyDict))
        qp == Truthy(Get(data, "questionPaper")) \/ Truthy(Get(data, "question_paper"))
                 \/ Truthy(Get(outline, paperKey))
        ms == Truthy(Get(data, "modelSolution")) \/ Truthy(Get(data, "model_solution"))
                 \/ Truthy(Get(outline, solutionKey))
    IN (IF ~qp THEN <<Reason(prefix \o "_QUESTION_PAPER")>> ELSE <<>>)
       \o (IF ~ms THEN <<Reason(prefix \o "_MODEL_SOLUTION")>> ELSE <<>>)
       \o (IF ~Truthy(Get(records, "best")) THEN <<Reason(prefix \o "_BEST")>> ELSE <<>>)
       \o (IF ~Truthy(Get(records, "average")) THEN <<Reason(prefix \o "_AVERAGE")>> ELSE <<>>)
       \o (IF ~Truthy(Get(records, "worst")) THEN <<Reason(prefix \o "_WORST")>> ELSE <<>>)

\* the payload of one assessment entry is looked up by str(id)
ItemReasons(outline, item, i, recordsKey, papersKey, solutionsKey, prefix) ==
    LET item_id == PyStr(GetD(item, "id", JStr("")))
        records == GetD(GetD(outline, recordsKey, EmptyDict), item_id, EmptyDict)
        paper_data == GetD(GetD(outline, papersKey, EmptyDict), item_id, EmptyDict)
        questions == IF paper_data.t = "dict"
                     THEN GetD(paper_data, "questions", JList(<<>>)) ELSE JList(<<>>)
        has_question_paper ==
            \/ Truthy(Get(item, "questionPaper"))
            \/ Truthy(Get(item, "question_paper"))
            \/ Truthy(questions)
            \/ Truthy(Get(paper_data, "questionPaper"))
            \/ Truthy(Get(paper_data, "question_paper"))
        solution_data == GetD(GetD(outline, solutionsKey, EmptyDict), item_id, EmptyDict)
        has_model_solution ==
            \/ Truthy(Get(item, "modelSolution"))
            \/ Truthy(Get(item, "model_solution"))
            \/ Truthy(solution_data)
            \/ Truthy(Get(paper_data, "modelSolution"))
            \/ Truthy(Get(paper_data, "model_solution"))
        missing == \E r \in {"best", "average", "worst"} : ~Truthy(Get(records, r))
    IN (IF ~has_question_paper THEN <<ItemReason(prefix \o "_QUESTION_PAPER", i)>> ELSE <<>>)
       \o (IF ~has_model_solution THEN <<ItemReason(prefix \o "_MODEL_SOLUTION", i)>> ELSE <<>>)
       \o (IF missing THEN <<ItemReason(prefix \o "_RECORDS", i)>> ELSE <<>>)

\* CHECK 9 / CHECK 10: the count and, when the count is met, the first
\* `required` entries of the list
ListReasons(outline, listKey, required, recordsKey, papersKey, solutionsKey, prefix) ==
    LET items == GetD(outline, listKey, JList(<<>>)).l
        upto[i \in 0..required] ==
            IF i = 0 THEN <<>>
            ELSE upto[i - 1] \o ItemReasons(outline, items[i], i, recordsKey,
                                            papersKey, solutionsKey, prefix)
    IN IF Len(items) < required
       THEN <<Reason(prefix \o "_COUNT")>>
       ELSE upto[required]

ValidateSubmission(f, logs, comps) ==
    LET outline == PyOr(f.outline_content, EmptyDict)
        has_course_outline == AnyKey(outline, OutlineKeys)
        has_course_log == \/ Truthy(Get(outline, "courseLogEntries"))
                          \/ Truthy(Get(outline, "courseLogs"))
                          \/ Len(logs) > 0
        has_assignments == Truthy(GetD(outline, "assignments", JList(<<>>)))
        has_quizzes == Truthy(GetD(outline, "quizzes", JList(<<>>)))
        has_midterm == AnyKey(outline, MidtermKeys)
        has_final == AnyKey(outline, FinalKeys)
        is_second_submission == IsSecondSubmission(f)
        is_first_submission == ~is_second_submission
        required == IF is_second_submission THEN RequiredSecond ELSE RequiredFirst
        log_reasons ==
            IF ~has_course_log THEN <<Reason("COURSE_LOG")>>
            ELSE IF Len(logs) = 0
                    /\ ~Truthy(PyOr(GetD(outline, "courseLogEntries", JList(<<>>)),
                                    GetD(outline, "courseLogs", JList(<<>>))))
                 THEN <<Reason("COURSE_LOG_ENTRY")>>
                 ELSE <<>>
        stage_reasons ==
            IF is_second_submission /\ ~has_final THEN <<Reason("FINAL_MANDATORY")>> ELSE <<>>
        midterm_reasons ==
            IF is_first_submission
            THEN IF ~has_midterm THEN <<Reason("MIDTERM_MANDATORY")>>
                 ELSE ExamBlockReasons(outline, "midterm", "midTerm", "midtermRecords",
                                       "midtermPaper", "midtermSolution", "MIDTERM")
            ELSE <<>>
        final_reasons ==
            IF ~is_first_submission
            THEN IF ~has_final THEN <<Reason("FINAL_MANDATORY")>>
                 ELSE ExamBlockReasons(outline, "final", "finalExam", "finalRecords",
                                       "finalPaper", "finalSolution", "FINAL")
            ELSE <<>>
        clo_reasons ==
            IF ~f.clo_assessment_file THEN <<Reason("CLO_ASSESSMENT")>> ELSE <<>>
        document_reasons ==
            IF ~is_first_submission
            THEN (IF ~f.project_report_file THEN <<Reason("PROJECT_REPORT")>> ELSE <<>>)
                 \o (IF ~f.folder_review_report_file THEN <<Reason("REVIEW_REPORT")>> ELSE <<>>)
                 \o (IF ~f.course_result_file THEN <<Reason("COURSE_RESULT")>> ELSE <<>>)
            ELSE <<>>
        errors ==
            (IF ~has_course_outline THEN <<Reason("COURSE_OUTLINE")>> ELSE <<>>)
            \o log_reasons
            \o (IF ~HasAttendance(outline, logs, comps) THEN <<Reason("ATTENDANCE")>> ELSE <<>>)
            \o stage_reasons
            \o midterm_reasons
            \o final_reasons
            \o clo_reasons
            \o document_reasons
            \o ListReasons(outline, "assignments", required, "assignmentRecords",
                           "assignmentPapers", "assignmentSolutions", "ASSIGNMENT")
            \o ListReasons(outline, "quizzes", required, "quizRecords",
                           "quizPapers", "quizSolutions", "QUIZ")
    IN IF ~Truthy(outline)
       THEN [ok |-> FALSE, errors |-> EmptyFolderReasons]
       ELSE IF ~(has_course_outline \/ has_course_log \/ has_assignments
                 \/ has_quizzes \/ has_midterm \/ has_final)
       THEN [ok |-> FALSE, errors |-> EmptyFolderReasons]
       ELSE IF is_first_submission /\ ~has_midterm
       THEN [ok |-> FALSE, errors |-> <<Reason("BEFORE_MIDTERM")>>]
       ELSE [ok |-> Len(errors) = 0, errors |-> errors]

(***************************************************************************)
(* Legacy completeness check: CourseFolder.check_completeness, the method  *)
(* behind the check_completeness endpoint.  It looks at the uploaded       *)
(* component, log and assessment rows and stops at the first shortfall.    *)
(***************************************************************************)
CountType(rows, ty) == Cardinality({i \in 1..Len(rows) : rows[i].assessment_type = ty})

check_completeness(logs, comps, rows) ==
    LET attendance_component_exists == "ATTENDANCE" \in comps
        attendance_per_log_complete ==
            Len(logs) > 0 /\ \A i \in 1..Len(logs) : logs[i].attendance_sheet
    IN IF "COURSE_OUTLINE" \notin comps THEN FALSE
       ELSE IF "REFERENCE_BOOKS" \notin comps THEN FALSE
       ELSE IF Len(logs) = 0 THEN FALSE
       ELSE IF ~attendance_component_exists /\ ~attendance_per_log_complete THEN FALSE
       ELSE IF CountType(rows, "ASSIGNMENT") < 4 THEN FALSE
       ELSE IF CountType(rows, "QUIZ") < 4 THEN FALSE
       ELSE IF CountType(rows, "MIDTERM") < 1 THEN FALSE
       ELSE IF CountType(rows, "FINAL") < 1 THEN FALSE
       ELSE \A i \in 1..Len(rows) :
                rows[i].question_paper /\ rows[i].model_solution /\ rows[i].sample_scripts


(***************************************************************************)
(* The folder row and the values of its fields.                            *)
(***************************************************************************)
STATUS_CHOICES ==
    {"DRAFT", "COMPLETED", "SUBMITTED", "APPROVED_COORDINATOR", "REJECTED_COORDINATOR",
     "ASSIGNED_TO_CONVENER", "UNDER_AUDIT", "AUDIT_COMPLETED", "REJECTED_BY_CONVENER",
     "SUBMITTED_TO_HOD", "APPROVED_BY_HOD", "REJECTED_BY_HOD"}

\* the ten statuses of the workflow
WorkflowStatuses ==
    {"DRAFT", "SUBMITTED", "APPROVED_COORDINATOR", "REJECTED_COORDINATOR",
     "UNDER_AUDIT", "AUDIT_COMPLETED", "REJECTED_BY_CONVENER",
     "SUBMITTED_TO_HOD", "APPROVED_BY_HOD", "REJECTED_BY_HOD"}

RejectedStatuses == {"REJECTED_COORDINATOR", "REJECTED_BY_CONVENER", "REJECTED_BY_HOD"}

\* field defaults of CourseFolder
NewFolder ==
    [status                    |-> "DRAFT",
     first_activity_completed  |-> FALSE,
     is_complete               |-> FALSE,
     coordinator_reviewed_by   |-> NoUser,
     coordinator_notes         |-> "",
     convener_assigned_by      |-> NoUser,
     convener_notes            |-> "",
     audit_completed           |-> FALSE,
     hod_reviewed_by           |-> NoUser,
     hod_decision              |-> "none",
     hod_notes                 |-> "",
     consolidated_pdf          |-> FALSE,
     pdf_generation_status     |-> "PENDING",
     project_report_file       |-> FALSE,
     course_result_file        |-> FALSE,
     folder_review_report_file |-> FALSE,
     clo_assessment_file       |-> FALSE,
     outline_content           |-> EmptyDict]

\* field defaults of AuditAssignment
NewAssignment ==
    [feedback_submitted |-> FALSE, feedback_submitted_at |-> 0, decision |-> "PENDING",
     remarks |-> ""]

HistoryEntry(st, u) == [status |-> st, changed_by |-> u]
\* timezone.now(): timestamps are only compared with each other, and the clock is
\* read as the number of status-history rows written so far
Now == Len(status_history)

Notification(u, ty, title, at) ==
    [user |-> u, notification_type |-> ty, title |-> title, created_at |-> at]

Admins == <<"admin">>
Convener == "conv"
Hod == "hod"

\* _notify_admins: one row per active admin
\* _notify_admins creating no notification
NotifyAdminsNobody(ty, title, at) == <<>>

NotifyAdmins(ty, title, at) ==
    [i \in 1..Len(Admins) |-> Notification(Admins[i], ty, title, at)]

NoRequest == [op |-> "none"]

(***************************************************************************)
(* get_queryset / get_object: the folder is found for the caller or the    *)
(* handler answers 404.                                                    *)
(***************************************************************************)
Visible(u, aa) ==
    CASE Role(u) = "FACULTY"      -> u = Owner
      [] Role(u) = "AUDIT_MEMBER" -> u \in DOMAIN aa
      [] OTHER                    -> TRUE

\* _get_coordinator_queryset(folder).order_by('id').first()
FirstCoordinator == IF "c1" \in coordinators THEN "c1" ELSE "c2"

(***************************************************************************)
(* submit                                                                  *)
(***************************************************************************)
SubmitAllowedStatuses ==
    {"DRAFT", "REJECTED_COORDINATOR", "REJECTED_BY_CONVENER", "REJECTED_BY_HOD",
     "APPROVED_BY_HOD"}

\* variant: Submit without the coordinator check (told apart by C6)
SubmitCodeWithoutCoordinatorCheck(f, aa, u) ==
    IF ~Visible(u, aa) THEN 404
    ELSE IF u # Owner THEN 403
    ELSE IF f.status \notin SubmitAllowedStatuses THEN 400
    ELSE IF ~ValidateSubmission(f, log_entries, components).ok THEN 400
    ELSE 200

SubmitCode(f, aa, u) ==
    IF ~Visible(u, aa) THEN 404
    ELSE IF u # Owner THEN 403
    ELSE IF f.status \notin SubmitAllowedStatuses THEN 400
    ELSE IF coordinators = {} THEN 400
    ELSE IF ~ValidateSubmission(f, log_entries, components).ok THEN 400
    ELSE 200

\* variant: Submit that leaves is_complete as it was (told apart by C7)
SubmitApplyKeepingIsComplete(f, u) ==
    /\ folder' = [f EXCEPT !.status = "SUBMITTED"]
    /\ status_history' = Append(status_history, HistoryEntry("SUBMITTED", u))
    /\ notifications' =
           (notifications
            \o <<Notification(FirstCoordinator, "FOLDER_SUBMITTED", "New Course Folder Submitted",
                              Now + 1)>>)
           \o (IF Role(u) = "FACULTY"
               THEN NotifyAdmins("FOLDER_SUBMITTED", "Folder Submitted", Now + 1) ELSE <<>>)
    /\ UNCHANGED <<audit_assignments, outline_snapshots, log_entries, components,
                   assessments, coordinators>>

SubmitApply(f, u) ==
    /\ folder' = [f EXCEPT !.status = "SUBMITTED",
                           !.is_complete = check_completeness(log_entries, components, assessments)]
    /\ status_history' = Append(status_history, HistoryEntry("SUBMITTED", u))
    /\ notifications' =
           (notifications
            \o <<Notification(FirstCoordinator, "FOLDER_SUBMITTED", "New Course Folder Submitted",
                           Now + 1)>>)
           \o (IF Role(u) = "FACULTY"
               THEN NotifyAdmins("FOLDER_SUBMITTED", "Folder Submitted", Now + 1) ELSE <<>>)
    /\ UNCHANGED <<audit_assignments, outline_snapshots, log_entries, components,
                   assessments, coordinators>>

submit(u) ==
    LET code == SubmitCode(folder, audit_assignments, u) IN
    /\ response' = code
    /\ IF code = 200 THEN SubmitApply(folder, u) ELSE UNCHANGED dbvars
    /\ UNCHANGED inflight

(***************************************************************************)
(* coordinator_review                                                      *)
(***************************************************************************)
CoordinatorStatuses == {"SUBMITTED", "APPROVED_COORDINATOR", "REJECTED_COORDINATOR"}

CoordinatorReviewCode(f, u, act) ==
    IF u \notin coordinators THEN 403
    ELSE IF f.status \notin CoordinatorStatuses THEN 400
    ELSE IF f.status \in {"APPROVED_COORDINATOR", "REJECTED_COORDINATOR"}
            /\ f.coordinator_reviewed_by # u THEN 403
    ELSE IF act \notin {"approve", "reject"} THEN 400
    ELSE 200

CoordinatorReviewApply(f, u, act, notes) ==
    LET previous_status == f.status
        is_editing == previous_status \in {"APPROVED_COORDINATOR", "REJECTED_COORDINATOR"}
        target == IF act = "approve" THEN "APPROVED_COORDINATOR" ELSE "REJECTED_COORDINATOR"
    IN
    /\ folder' = [f EXCEPT !.status = target,
                           !.coordinator_reviewed_by = u,
                           !.coordinator_notes = notes]
    /\ status_history' = Append(status_history, HistoryEntry(target, u))
    /\ notifications' =
           notifications \o
           (IF act = "approve"
            THEN IF ~is_editing \/ previous_status = "REJECTED_COORDINATOR"
                 THEN <<Notification(Owner, "FOLDER_APPROVED", "Course Folder Approved by Coordinator",
                                     Now + 1),
                        Notification(Convener, "FOLDER_APPROVED",
                                     "Course Folder Approved - Awaiting Audit Assignment", Now + 1)>>
                 ELSE <<>>
            ELSE <<Notification(Owner, "FOLDER_RETURNED", "Course Folder Rejected by Coordinator",
                                Now + 1)>>)
    /\ UNCHANGED <<audit_assignments, outline_snapshots, log_entries, components,
                   assessments, coordinators>>

coordinator_review(u, act, notes) ==
    LET code == CoordinatorReviewCode(folder, u, act) IN
    /\ response' = code
    /\ IF code = 200 THEN CoordinatorReviewApply(folder, u, act, notes) ELSE UNCHANGED dbvars
    /\ UNCHANGED inflight

(***************************************************************************)
(* assign_audit / unassign_audit                                           *)
(***************************************************************************)
\* User.objects.filter(id__in=auditor_ids, is_active=True).exclude(role='HOD')
ValidAuditors(auditor_ids) == {a \in auditor_ids : a \in Users /\ Role(a) # "HOD"}

AssignAuditCode(f, aa, u, auditor_ids) ==
    IF ~Visible(u, aa) THEN 404
    ELSE IF Role(u) # "CONVENER" THEN 403
    ELSE IF f.status # "APPROVED_COORDINATOR" THEN 400
    ELSE IF auditor_ids = {} THEN 400
    ELSE IF Cardinality(ValidAuditors(auditor_ids)) # Cardinality(auditor_ids) THEN 400
    ELSE 200

\* the users of a set in id order
RECURSIVE InIdOrder(_)
UserOrder == <<"fac", "fac2", "c1", "c2", "conv", "hod", "a1", "a2", "admin">>
IdOf(u) == CHOOSE i \in 1..Len(UserOrder) : UserOrder[i] = u
InIdOrder(S) ==
    IF S = {} THEN <<>>
    ELSE LET m == CHOOSE x \in S : \A y \in S : IdOf(x) <= IdOf(y)
         IN <<m>> \o InIdOrder(S \ {m})

\* AuditAssignment.objects.get_or_create(folder, auditor, defaults=...)
GetOrCreateAssignments(aa, auditors) ==
    [a \in (DOMAIN aa) \cup auditors |-> IF a \in DOMAIN aa THEN aa[a] ELSE NewAssignment]

AssignAuditApply(f, u, auditor_ids) ==
    LET auditors == InIdOrder(ValidAuditors(auditor_ids)) IN
    /\ audit_assignments' = GetOrCreateAssignments(audit_assignments, ValidAuditors(auditor_ids))
    /\ notifications' =
           notifications \o
           [i \in 1..Len(auditors) |-> Notification(auditors[i], "AUDIT_ASSIGNED", "Audit Assignment", Now)]
    /\ folder' = [f EXCEPT !.status = "UNDER_AUDIT", !.convener_assigned_by = u]
    /\ status_history' = Append(status_history, HistoryEntry("UNDER_AUDIT", u))
    /\ UNCHANGED <<outline_snapshots, log_entries, components, assessments, coordinators>>

assign_audit(u, auditor_ids) ==
    LET code == AssignAuditCode(folder, audit_assignments, u, auditor_ids) IN
    /\ response' = code
    /\ IF code = 200 THEN AssignAuditApply(folder, u, auditor_ids) ELSE UNCHANGED dbvars
    /\ UNCHANGED inflight

UnassignAuditCode(f, aa, u) ==
    IF ~Visible(u, aa) THEN 404
    ELSE IF Role(u) # "CONVENER" THEN 403
    ELSE IF f.status # "UNDER_AUDIT" THEN 400
    ELSE 200

\* variant: the audit is unassigned without a history row (told apart by C13)
UnassignAuditApplyWithoutHistory(f, u) ==
    /\ audit_assignments' = EmptyMap
    /\ folder' = [f EXCEPT !.status = "APPROVED_COORDINATOR", !.convener_assigned_by = NoUser]
    /\ UNCHANGED <<status_history, notifications, outline_snapshots, log_entries, components,
                   assessments, coordinators>>

\* variant: the audit is unassigned and the assignment rows are kept (told
\* apart by C22)
UnassignAuditApplyKeepingRows(f, u) ==
    /\ folder' = [f EXCEPT !.status = "APPROVED_COORDINATOR", !.convener_assigned_by = NoUser]
    /\ status_history' = Append(status_history, HistoryEntry("APPROVED_COORDINATOR", u))
    /\ UNCHANGED <<audit_assignments, notifications, outline_snapshots, log_entries, components,
                   assessments, coordinators>>

UnassignAuditApply(f, u) ==
    /\ audit_assignments' = EmptyMap
    /\ folder' = [f EXCEPT !.status = "APPROVED_COORDINATOR", !.convener_assigned_by = NoUser]
    /\ status_history' = Append(status_history, HistoryEntry("APPROVED_COORDINATOR", u))
    /\ UNCHANGED <<notifications, outline_snapshots, log_entries, components,
                   assessments, coordinators>>

unassign_audit(u) ==
    LET code == UnassignAuditCode(folder, audit_assignments, u) IN
    /\ response' = code
    /\ IF code = 200 THEN UnassignAuditApply(folder, u) ELSE UNCHANGED dbvars
    /\ UNCHANGED inflight


(***************************************************************************)
(* submit_audit_report                                                     *)
(***************************************************************************)
AuditRoles == {"AUDIT_TEAM", "AUDIT_MEMBER", "EVALUATOR"}

\* _has_audit_access
HasAuditAccess(u, aa) == Role(u) \in AuditRoles \/ u \in DOMAIN aa

SubmitAuditReportCode(f, aa, u, remarks) ==
    IF ~HasAuditAccess(u, aa) THEN 403
    ELSE IF u \notin DOMAIN aa THEN 403
    ELSE IF f.status \in {"SUBMITTED_TO_HOD", "APPROVED_BY_HOD", "REJECTED_BY_HOD"} THEN 400
    ELSE IF f.status \notin {"UNDER_AUDIT", "AUDIT_COMPLETED"} THEN 400
    ELSE IF remarks = "" THEN 400
    ELSE 200

\* variant: a report without a decision resets the recorded decision (told
\* apart by C23)
ReportedAssignmentDefaultingToPending(a, decision_val, remarks) ==
    [a EXCEPT !.feedback_submitted = TRUE,
              !.feedback_submitted_at = Now,
              !.remarks = remarks,
              !.decision = CASE decision_val = "approve" -> "APPROVED"
                             [] decision_val = "reject"  -> "REJECTED"
                             [] OTHER                    -> "PENDING"]

\* the assignment row as the handler saves it
ReportedAssignment(a, decision_val, remarks) ==
    [a EXCEPT !.feedback_submitted = TRUE,
              !.feedback_submitted_at = Now,
              !.remarks = remarks,
              !.decision = CASE decision_val = "approve" -> "APPROVED"
                             [] decision_val = "reject"  -> "REJECTED"
                             [] OTHER                    -> @]

\* assignment.save(): the row of the auditor is written, other rows are as in the table
SaveAssignment(aa, u, a) ==
    [x \in (DOMAIN aa) \cup {u} |-> IF x = u THEN a ELSE aa[x]]

\* _compute_audit_summary(folder)['decisions']['REJECTED'] > 0
AnyRejected(aa) == \E x \in DOMAIN aa : aa[x].decision = "REJECTED"

\* variant: the panel is never seen as complete (told apart by C30)
AllSubmittedNever(aa) ==
    FALSE

AllSubmitted(aa) ==
    /\ Cardinality(DOMAIN aa) > 0
    /\ Cardinality({x \in DOMAIN aa : aa[x].feedback_submitted}) = Cardinality(DOMAIN aa)

\* variant: the convener is notified again although a notification of the
\* type exists (told apart by C19)
HasNotificationNever(ns, u, ty) ==
    FALSE

HasNotification(ns, u, ty) ==
    \E i \in 1..Len(ns) : ns[i].user = u /\ ns[i].notification_type = ty

\* the part of the handler after assignment.save(): f is the folder object of
\* the request, a its assignment object, aa the assignment table as stored
\* variant: routing that waits for every auditor even after a rejection
\* (told apart by C3)
AuditRoutingWaitingForAll(f, a, aa, u) ==
    IF AllSubmitted(aa)
    THEN /\ folder' = [folder EXCEPT !.status = "AUDIT_COMPLETED", !.audit_completed = TRUE]
         /\ notifications' =
                Append(notifications,
                       Notification(Convener, "FOLDER_RETURNED",
                                    "Audit Completed with Rejections", Now))
         /\ status_history' = Append(status_history, HistoryEntry("AUDIT_COMPLETED", u))
    ELSE UNCHANGED <<folder, notifications, status_history>>

AuditRouting(f, a, aa, u) ==
    IF a.decision = "REJECTED"
    THEN /\ folder' = [folder EXCEPT !.status = "AUDIT_COMPLETED", !.audit_completed = TRUE]
         /\ notifications' =
                Append(notifications,
                       Notification(Convener, "FOLDER_RETURNED", "Audit Rejected by Auditor", Now))
         /\ status_history' = Append(status_history, HistoryEntry("AUDIT_COMPLETED", u))
    ELSE IF AllSubmitted(aa)
    THEN IF AnyRejected(aa)
         THEN /\ folder' = IF f.status # "AUDIT_COMPLETED"
                           THEN [folder EXCEPT !.status = "AUDIT_COMPLETED",
                                               !.audit_completed = TRUE]
                           ELSE folder
              /\ notifications' =
                     IF ~HasNotification(notifications, Convener, "FOLDER_RETURNED")
                     THEN Append(notifications,
                                 Notification(Convener, "FOLDER_RETURNED",
                                              "Audit Completed with Rejections", Now))
                     ELSE notifications
              /\ status_history' = Append(status_history, HistoryEntry("AUDIT_COMPLETED", u))
         ELSE /\ folder' = [folder EXCEPT !.status = "AUDIT_COMPLETED", !.audit_completed = TRUE]
              /\ notifications' =
                     IF ~HasNotification(notifications, Convener, "FOLDER_APPROVED")
                     THEN Append(notifications,
                                 Notification(Convener, "FOLDER_APPROVED",
                                              "Audit Completed - Ready for Review", Now))
                     ELSE notifications
              /\ status_history' = Append(status_history, HistoryEntry("AUDIT_COMPLETED", u))
    ELSE UNCHANGED <<folder, notifications, status_history>>

\* f and assignment are the objects the request loaded
SubmitAuditReportApply(f, assignment, u, decision_val, remarks) ==
    LET a == ReportedAssignment(assignment, decision_val, remarks)
        aa == SaveAssignment(audit_assignments, u, a)
    IN /\ audit_assignments' = aa
       /\ AuditRouting(f, a, aa, u)
       /\ UNCHANGED <<outline_snapshots, log_entries, components, assessments, coordinators>>

\* variant: the assignment row is saved before the remarks are checked
\* (told apart by C5)
submit_audit_report_saving_first(u, decision_val, remarks) ==
    LET code == SubmitAuditReportCode(folder, audit_assignments, u, remarks) IN
    /\ response' = code
    /\ IF code = 200
       THEN SubmitAuditReportApply(folder, audit_assignments[u], u, decision_val, remarks)
       ELSE IF code = 400 /\ u \in DOMAIN audit_assignments
       THEN /\ audit_assignments' =
                   SaveAssignment(audit_assignments, u,
                                  ReportedAssignment(audit_assignments[u], decision_val, remarks))
            /\ UNCHANGED <<folder, status_history, notifications, outline_snapshots,
                           log_entries, components, assessments, coordinators>>
       ELSE UNCHANGED dbvars
    /\ UNCHANGED inflight

submit_audit_report(u, decision_val, remarks) ==
    LET code == SubmitAuditReportCode(folder, audit_assignments, u, remarks) IN
    /\ response' = code
    /\ IF code = 200
       THEN SubmitAuditReportApply(folder, audit_assignments[u], u, decision_val, remarks)
       ELSE UNCHANGED dbvars
    /\ UNCHANGED inflight

(***************************************************************************)
(* convener_review                                                         *)
(***************************************************************************)
ConvenerStatuses == {"AUDIT_COMPLETED", "SUBMITTED_TO_HOD", "REJECTED_BY_CONVENER"}

ConvenerReviewCode(f, aa, u, act, notes) ==
    IF ~Visible(u, aa) THEN 404
    ELSE IF Role(u) # "CONVENER" THEN 403
    ELSE IF f.status \notin ConvenerStatuses THEN 400
    ELSE IF act = "forward_to_hod" THEN 200
    ELSE IF act = "reject" THEN (IF notes = "" THEN 400 ELSE 200)
    ELSE 400

\* the consolidated PDF step of forward_to_hod: pdf is what the build did
\* ("ok": a merged file was produced, "skip": nothing to merge, "fail": it raised)
WithConsolidatedPdf(f, pdf) ==
    IF f.consolidated_pdf THEN f
    ELSE CASE pdf = "ok"   -> [f EXCEPT !.consolidated_pdf = TRUE,
                                        !.pdf_generation_status = "COMPLETED"]
           [] pdf = "fail" -> [f EXCEPT !.pdf_generation_status = "FAILED"]
           [] OTHER        -> f

ConvenerReviewApply(f, u, act, notes, pdf) ==
    /\ IF act = "forward_to_hod"
       THEN /\ folder' = WithConsolidatedPdf([f EXCEPT !.status = "SUBMITTED_TO_HOD",
                                                       !.convener_notes = notes], pdf)
            /\ status_history' = Append(status_history, HistoryEntry("SUBMITTED_TO_HOD", u))
            /\ notifications' =
                   Append(notifications,
                          Notification(Hod, "FOLDER_SUBMITTED",
                                       "Course Folder Awaiting Final Approval", Now + 1))
       ELSE /\ folder' = [f EXCEPT !.status = "REJECTED_BY_CONVENER",
                                   !.convener_notes = notes]
            /\ status_history' = Append(status_history, HistoryEntry("REJECTED_BY_CONVENER", u))
            /\ notifications' =
                   Append(notifications,
                          Notification(Owner, "FOLDER_RETURNED",
                                       "Course Folder Rejected After Audit", Now + 1))
    /\ UNCHANGED <<audit_assignments, outline_snapshots, log_entries, components,
                   assessments, coordinators>>

convener_review(u, act, notes, pdf) ==
    LET code == ConvenerReviewCode(folder, audit_assignments, u, act, notes) IN
    /\ response' = code
    /\ IF code = 200 THEN ConvenerReviewApply(folder, u, act, notes, pdf) ELSE UNCHANGED dbvars
    /\ UNCHANGED inflight

(***************************************************************************)
(* hod_final_decision                                                      *)
(***************************************************************************)
HodStatuses == {"SUBMITTED_TO_HOD", "APPROVED_BY_HOD", "REJECTED_BY_HOD"}

HodFinalDecisionCode(f, aa, u, decision) ==
    IF ~Visible(u, aa) THEN 404
    ELSE IF Role(u) # "HOD" THEN 403
    ELSE IF f.status \notin HodStatuses THEN 400
    ELSE IF decision \notin {"approve", "reject"} THEN 400
    ELSE 200

HodFinalDecisionApply(f, u, decision, notes) ==
    /\ IF decision = "approve"
       THEN /\ folder' = [f EXCEPT !.status = "APPROVED_BY_HOD",
                                   !.hod_reviewed_by = u,
                                   !.hod_decision = "APPROVED",
                                   !.hod_notes = notes,
                                   !.first_activity_completed = TRUE]
            /\ notifications' =
                   Append(notifications,
                          IF ~f.first_activity_completed
                          THEN Notification(Owner, "FOLDER_APPROVED",
                                   "First Activity Completed - Ready for Final Submission", Now)
                          ELSE Notification(Owner, "FOLDER_APPROVED",
                                   "Course Folder Approved - Final", Now))
            /\ status_history' = Append(status_history, HistoryEntry("APPROVED_BY_HOD", u))
       ELSE /\ folder' = [f EXCEPT !.status = "REJECTED_BY_HOD",
                                   !.hod_reviewed_by = u,
                                   !.hod_decision = "REJECTED",
                                   !.hod_notes = notes]
            /\ notifications' =
                   Append(notifications,
                          Notification(Owner, "FOLDER_RETURNED", "Course Folder Rejected by HOD",
                                       Now + 1))
            /\ status_history' = Append(status_history, HistoryEntry("REJECTED_BY_HOD", u))
    /\ UNCHANGED <<audit_assignments, outline_snapshots, log_entries, components,
                   assessments, coordinators>>

hod_final_decision(u, decision, notes) ==
    LET code == HodFinalDecisionCode(folder, audit_assignments, u, decision) IN
    /\ response' = code
    /\ IF code = 200 THEN HodFinalDecisionApply(folder, u, decision, notes)
       ELSE UNCHANGED dbvars
    /\ UNCHANGED inflight


(***************************************************************************)
(* save_outline                                                            *)
(***************************************************************************)
\* variant: lists are extended instead of replaced (told apart by C15)
RECURSIVE deep_merge_extending_lists(_, _)
deep_merge_extending_lists(a, b) ==
    IF a.t = "list" /\ b.t = "list" THEN JList(a.l \o b.l)
    ELSE IF a.t # "dict" \/ b.t # "dict" THEN b
    ELSE JDict([k \in (DOMAIN a.d) \cup (DOMAIN b.d) |->
                   IF k \notin DOMAIN b.d THEN a.d[k]
                   ELSE IF k \in DOMAIN a.d /\ a.d[k].t = b.d[k].t /\ a.d[k].t \in {"dict", "list"}
                        THEN deep_merge_extending_lists(a.d[k], b.d[k])
                        ELSE b.d[k]])

RECURSIVE deep_merge(_, _)
deep_merge(a, b) ==
    IF a.t # "dict" \/ b.t # "dict" THEN b
    ELSE JDict([k \in (DOMAIN a.d) \cup (DOMAIN b.d) |->
                   IF k \notin DOMAIN b.d THEN a.d[k]
                   ELSE IF k \in DOMAIN a.d /\ a.d[k].t = "dict" /\ b.d[k].t = "dict"
                        THEN deep_merge(a.d[k], b.d[k])
                        ELSE b.d[k]])

\* x[k] = v on a Python dict
SetKey(x, k, v) == JDict([kk \in (DOMAIN x.d) \cup {k} |-> IF kk = k THEN v ELSE x.d[kk]])

\* del x[k] when k is present
DelKey(x, k) == JDict([kk \in (DOMAIN x.d) \ {k} |-> x.d[kk]])

\* variant: APPROVED_BY_HOD is editable whatever the flag (told apart by C14)
EditAllowedWithoutFlag(f) ==
    f.status \in {"DRAFT", "REJECTED_COORDINATOR", "REJECTED_BY_CONVENER", "REJECTED_BY_HOD",
                  "APPROVED_BY_HOD"}

\* the edit window shared by save_outline and _check_folder_edit_permission
EditAllowed(f) ==
    \/ f.status \in {"DRAFT", "REJECTED_COORDINATOR", "REJECTED_BY_CONVENER", "REJECTED_BY_HOD"}
    \/ (f.status = "APPROVED_BY_HOD" /\ f.first_activity_completed)

NoSection == ""

SaveOutlineCode(f, aa, u, payload) ==
    IF ~Visible(u, aa) THEN 404
    ELSE IF HasFacultyProfile(u) /\ u # Owner THEN 403
    ELSE IF ~EditAllowed(f) THEN 400
    ELSE IF payload = JNone THEN 400
    ELSE 200

MergedOutline(f, section, payload) ==
    LET current == PyOr(f.outline_content, EmptyDict)
        incoming == IF payload.t = "dict" THEN payload ELSE EmptyDict
        value == IF Get(incoming, section) = JNone THEN incoming ELSE Get(incoming, section)
    IN IF section # NoSection THEN SetKey(current, section, value)
       ELSE deep_merge(current, incoming)

\* variant: the snapshot is taken after the merge (told apart by C16)
SaveOutlineApplySnapshotAfter(f, u, section, payload) ==
    /\ outline_snapshots' =
           Append(outline_snapshots,
                  [data |-> MergedOutline(f, section, payload), created_by |-> u])
    /\ folder' = [folder EXCEPT !.outline_content = MergedOutline(f, section, payload)]
    /\ UNCHANGED <<audit_assignments, status_history, notifications, log_entries,
                   components, assessments, coordinators>>

SaveOutlineApply(f, u, section, payload) ==
    /\ outline_snapshots' =
           Append(outline_snapshots,
                  [data |-> PyOr(f.outline_content, EmptyDict), created_by |-> u])
    /\ folder' = [folder EXCEPT !.outline_content = MergedOutline(f, section, payload)]
    /\ UNCHANGED <<audit_assignments, status_history, notifications, log_entries,
                   components, assessments, coordinators>>

save_outline(u, section, payload) ==
    LET code == SaveOutlineCode(folder, audit_assignments, u, payload) IN
    /\ response' = code
    /\ IF code = 200 THEN SaveOutlineApply(folder, u, section, payload) ELSE UNCHANGED dbvars
    /\ UNCHANGED inflight

(***************************************************************************)
(* Document uploads.  has_file says whether the request carries a PDF.     *)
(***************************************************************************)
FileMeta == JDict([fileName |-> JStr("report.pdf"), fileSize |-> JInt(1)])

\* upload_project_report, upload_course_result, upload_folder_review_report
UploadCode(f, aa, u, has_file) ==
    IF ~Visible(u, aa) THEN 404
    ELSE IF HasFacultyProfile(u) /\ u # Owner THEN 403
    ELSE IF ~EditAllowed(f) THEN 400
    ELSE IF ~has_file THEN 400
    ELSE 200

\* upload_clo_assessment has its own status list
UploadCloCode(f, aa, u, has_file) ==
    IF ~Visible(u, aa) THEN 404
    ELSE IF HasFacultyProfile(u) /\ u # Owner THEN 403
    ELSE IF f.status \notin {"DRAFT", "REJECTED_COORDINATOR", "REJECTED_BY_CONVENER",
                             "REJECTED_BY_HOD"} THEN 400
    ELSE IF ~has_file THEN 400
    ELSE 200

WithMeta(f, key) ==
    [f EXCEPT !.outline_content = SetKey(PyOr(f.outline_content, EmptyDict), key, FileMeta)]

\* both folder.save() calls of an upload write the whole row of the request's object
UploadApply(g) ==
    /\ folder' = g
    /\ UNCHANGED <<audit_assignments, status_history, notifications, outline_snapshots,
                   log_entries, components, assessments, coordinators>>

upload_project_report(u, has_file) ==
    LET code == UploadCode(folder, audit_assignments, u, has_file) IN
    /\ response' = code
    /\ IF code = 200
       THEN UploadApply(WithMeta([folder EXCEPT !.project_report_file = TRUE], "projectReport"))
       ELSE UNCHANGED dbvars
    /\ UNCHANGED inflight

upload_course_result(u, has_file) ==
    LET code == UploadCode(folder, audit_assignments, u, has_file) IN
    /\ response' = code
    /\ IF code = 200
       THEN UploadApply(WithMeta([folder EXCEPT !.course_result_file = TRUE], "courseResult"))
       ELSE UNCHANGED dbvars
    /\ UNCHANGED inflight

upload_folder_review_report(u, has_file) ==
    LET code == UploadCode(folder, audit_assignments, u, has_file) IN
    /\ response' = code
    /\ IF code = 200
       THEN UploadApply(WithMeta([folder EXCEPT !.folder_review_report_file = TRUE],
                                 "folderReviewReport"))
       ELSE UNCHANGED dbvars
    /\ UNCHANGED inflight

upload_clo_assessment(u, has_file) ==
    LET code == UploadCloCode(folder, audit_assignments, u, has_file) IN
    /\ response' = code
    /\ IF code = 200
       THEN UploadApply(WithMeta([folder EXCEPT !.clo_assessment_file = TRUE], "cloAssessment"))
       ELSE UNCHANGED dbvars
    /\ UNCHANGED inflight

(***************************************************************************)
(* Generic update of the ModelViewSet (PUT/PATCH /course-folders/{id}/)    *)
(* through CourseFolderUpdateSerializer.                                   *)
(***************************************************************************)
Absent == "<absent>"

PartialUpdateCode(f, aa, u, data) ==
    IF ~Visible(u, aa) THEN 404
    ELSE IF data.status # Absent /\ data.status \notin STATUS_CHOICES THEN 400
    ELSE 200

PartialUpdateApply(f, data) ==
    /\ folder' = [f EXCEPT !.status = IF data.status = Absent THEN @ ELSE data.status,
                           !.coordinator_notes =
                               IF data.coordinator_notes = Absent THEN @
                               ELSE data.coordinator_notes]
    /\ UNCHANGED <<audit_assignments, status_history, notifications, outline_snapshots,
                   log_entries, components, assessments, coordinators>>

partial_update(u, data) ==
    LET code == PartialUpdateCode(folder, audit_assignments, u, data) IN
    /\ response' = code
    /\ IF code = 200 THEN PartialUpdateApply(folder, data) ELSE UNCHANGED dbvars
    /\ UNCHANGED inflight


\* check_completeness endpoint: a read of CourseFolder.check_completeness
check_completeness_endpoint(u) ==
    /\ response' = IF Visible(u, audit_assignments) THEN 200 ELSE 404
    /\ UNCHANGED dbvars
    /\ UNCHANGED inflight

(***************************************************************************)
(* Outline documents the client sends.                                     *)
(***************************************************************************)
X == JStr("x")
Records == JDict([best |-> X, average |-> X, worst |-> X])
ExamBlock == JDict([questionPaper |-> X, modelSolution |-> X])
Item(n) == JDict([id |-> JInt(n), questionPaper |-> X, modelSolution |-> X])
Items(n) == JList([i \in 1..n |-> Item(i)])
ItemRecords(n) == JDict([k \in {IntStr(i) : i \in 1..n} |-> Records])

\* everything the first checkpoint asks of the outline document
MidtermDoc ==
    JDict([courseDescription |-> X,
           courseLogEntries  |-> JList(<<X>>),
           attendance        |-> X,
           midterm           |-> ExamBlock,
           midtermRecords    |-> Records,
           assignments       |-> Items(RequiredFirst),
           assignmentRecords |-> ItemRecords(RequiredFirst),
           quizzes           |-> Items(RequiredFirst),
           quizRecords       |-> ItemRecords(RequiredFirst)])

\* what the second checkpoint adds
FinalDoc ==
    JDict([final             |-> ExamBlock,
           finalRecords      |-> Records,
           assignments       |-> Items(RequiredSecond),
           assignmentRecords |-> ItemRecords(RequiredSecond),
           quizzes           |-> Items(RequiredSecond),
           quizRecords       |-> ItemRecords(RequiredSecond)])

DescriptionDoc == JDict([courseDescription |-> X])

(***************************************************************************)
(* Rows of the component, log and assessment tables.                       *)
(***************************************************************************)
AssessmentRow(ty) ==
    [assessment_type |-> ty, question_paper |-> TRUE, model_solution |-> TRUE,
     sample_scripts |-> TRUE]

CompleteAssessments ==
    [i \in 1..10 |-> AssessmentRow(CASE i <= 4 -> "ASSIGNMENT"
                                     [] i <= 8 -> "QUIZ"
                                     [] i = 9  -> "MIDTERM"
                                     [] OTHER  -> "FINAL")]

\* the uploaded-rows side of a folder: nothing uploaded, or all of it
NoUploads == [logs |-> <<>>, comps |-> {}, rows |-> <<>>]
AllUploads ==
    [logs  |-> <<[attendance_sheet |-> TRUE]>>,
     comps |-> {"COURSE_OUTLINE", "REFERENCE_BOOKS", "ATTENDANCE"},
     rows  |-> CompleteAssessments]

(***************************************************************************)
(* Initial state: the folder as perform_create leaves it, for a course     *)
(* with or without mapped coordinators.                                    *)
(***************************************************************************)
InitWith(worlds) ==
    /\ folder = NewFolder
    /\ audit_assignments = EmptyMap
    /\ status_history = <<HistoryEntry("DRAFT", Owner)>>
    /\ notifications = NotifyAdmins("OTHER", "New Course Folder Created", 1)
    /\ outline_snapshots = <<>>
    /\ \E w \in worlds :
          /\ log_entries = w.uploads.logs
          /\ components = w.uploads.comps
          /\ assessments = w.uploads.rows
          /\ coordinators = w.coordinators
    /\ response = 200
    /\ inflight = [u \in Users |-> NoRequest]

World(cs, up) == [coordinators |-> cs, uploads |-> up]

Init ==
    InitWith({World({"c1", "c2"}, NoUploads),
              World({"c1", "c2"}, AllUploads),
              World({}, NoUploads)})

(***************************************************************************)
(* Inputs of the requests.  Each handler is called by the users whose role *)
(* it serves and by users it must turn away.                               *)
(***************************************************************************)
Call(u, args) == [u |-> u, args |-> args]

\* a call by a user the handler serves, for each argument, and one call by
\* each user it must turn away
Calls(served, refused, argSets) ==
    {Call(u, a) : u \in served, a \in argSets}
    \cup {Call(u, CHOOSE a \in argSets : TRUE) : u \in refused}

SubmitCalls == Calls({"fac"}, {"fac2", "c1"}, {<<>>})
CoordinatorReviewCalls ==
    Calls({"c1", "c2"}, {"fac"}, {<<"approve", "n">>, <<"reject", "n">>})
    \cup {Call("c1", <<"publish", "n">>)}
AssignAuditCalls ==
    Calls({"conv"}, {"hod", "fac2"}, {<<{"a1"}>>, <<{"a1", "a2"}>>})
    \cup {Call("conv", <<{}>>), Call("conv", <<{"a1", "hod"}>>)}
UnassignAuditCalls == Calls({"conv"}, {"hod", "fac2"}, {<<>>})
SubmitAuditReportCalls ==
    Calls({"a1", "a2"}, {"conv"}, {<<"approve", "n">>, <<"reject", "n">>, <<Absent, "n">>})
    \cup {Call("a1", <<"approve", "">>)}
ConvenerReviewCalls ==
    Calls({"conv"}, {"hod", "fac2"}, {<<"forward_to_hod", "n", "ok">>, <<"reject", "n", "ok">>})
    \cup {Call("conv", <<"reject", "", "ok">>), Call("conv", <<"publish", "n", "ok">>)}
HodFinalDecisionCalls ==
    Calls({"hod"}, {"conv", "fac2"}, {<<"approve", "n">>, <<"reject", "n">>})
    \cup {Call("hod", <<"publish", "n">>)}
SaveOutlineCalls ==
    Calls({"fac"}, {"fac2", "c1"}, {<<NoSection, MidtermDoc>>})
    \cup {Call("fac", <<NoSection, JNone>>)}
UploadCalls == Calls({"fac"}, {"c1"}, {<<TRUE>>}) \cup {Call("fac", <<FALSE>>)}
PartialUpdateCalls ==
    Calls({"admin"}, {"fac2"},
          {<<[status |-> st, coordinator_notes |-> Absent]>> :
              st \in {"COMPLETED", "APPROVED_COORDINATOR", "SUBMITTED_TO_HOD"}})
    \cup {Call("admin", <<[status |-> "ARCHIVED", coordinator_notes |-> Absent]>>)}
ProbeCalls == Calls({"fac"}, {"fac2"}, {<<>>})

HistoryBelow(n) == Len(status_history) < n
SnapshotsBelow(n) == Len(outline_snapshots) < n

Next ==
    /\ HistoryBelow(MaxHistory)
    /\ \/ \E c \in SubmitCalls : submit(c.u)
       \/ \E c \in CoordinatorReviewCalls : coordinator_review(c.u, c.args[1], c.args[2])
       \/ \E c \in AssignAuditCalls : assign_audit(c.u, c.args[1])
       \/ \E c \in UnassignAuditCalls : unassign_audit(c.u)
       \/ \E c \in SubmitAuditReportCalls : submit_audit_report(c.u, c.args[1], c.args[2])
       \/ \E c \in ConvenerReviewCalls : convener_review(c.u, c.args[1], c.args[2], c.args[3])
       \/ \E c \in HodFinalDecisionCalls : hod_final_decision(c.u, c.args[1], c.args[2])
       \/ /\ SnapshotsBelow(MaxSnapshots)
          /\ \E c \in SaveOutlineCalls : save_outline(c.u, c.args[1], c.args[2])
       \/ \E c \in UploadCalls : upload_clo_assessment(c.u, c.args[1])
       \/ \E c \in PartialUpdateCalls : partial_update(c.u, c.args[1])
       \/ \E c \in ProbeCalls : check_completeness_endpoint(c.u)

Spec == Init /\ [][Next]_vars

(***************************************************************************)
(* The review rounds without the generic update endpoint: every request    *)
(* is made by the user the handler serves, and the folder goes through     *)
(* the cycle of submission, coordinator review, audit, convener review     *)
(* and HOD decision as often as MaxRoundHistory allows.                    *)
(***************************************************************************)
RoundInit == InitWith({World({"c1"}, NoUploads)})

RoundRequests ==
    \/ /\ SnapshotsBelow(MaxSnapshots)
       /\ save_outline("fac", NoSection, MidtermDoc)
    \/ upload_clo_assessment("fac", TRUE)
    \/ submit("fac")
    \/ \E act \in {"approve", "reject"} : coordinator_review("c1", act, "n")
    \/ \E ids \in {{"a1"}, {"a1", "a2"}} : assign_audit("conv", ids)
    \/ unassign_audit("conv")
    \/ \E u \in {"a1", "a2"}, d \in {"approve", "reject"} : submit_audit_report(u, d, "n")
    \/ \E act \in {"forward_to_hod", "reject"} : convener_review("conv", act, "n", "ok")
    \/ \E d \in {"approve", "reject"} : hod_final_decision("hod", d, "n")

RoundNext == HistoryBelow(MaxRoundHistory) /\ RoundRequests

RoundSpec == RoundInit /\ [][RoundNext]_vars

\* one review cycle: the same requests, for a history of MaxCycleHistory rows
MaxCycleHistory == 7

CycleNext == HistoryBelow(MaxCycleHistory) /\ RoundRequests

CycleSpec == RoundInit /\ [][CycleNext]_vars

\* one review cycle with the generic update endpoint: an administrator sends
\* PATCH with a status
OverrideNext ==
    \/ CycleNext
    \/ /\ HistoryBelow(MaxCycleHistory)
       /\ \E st \in {"DRAFT", "SUBMITTED_TO_HOD"} :
              partial_update("admin", [status |-> st, coordinator_notes |-> Absent])

OverrideSpec == RoundInit /\ [][OverrideNext]_vars

(***************************************************************************)
(* The two submission checkpoints: the content handlers, Submit, the HOD   *)
(* decision that sets first_activity_completed, and the generic update     *)
(* that puts the folder in a status Submit accepts or refuses.             *)
(***************************************************************************)
CheckpointSubmitCalls == Calls({"fac"}, {"fac2", "admin"}, {<<>>})
CheckpointOutlineCalls ==
    Calls({"fac"}, {"c1"},
          {<<NoSection, MidtermDoc>>, <<NoSection, deep_merge(MidtermDoc, FinalDoc)>>})
CheckpointUploadCalls == Calls({"fac"}, {}, {<<TRUE>>})
CheckpointUpdateCalls ==
    Calls({"admin"}, {},
          {<<[status |-> st, coordinator_notes |-> Absent]>> :
              st \in {"SUBMITTED_TO_HOD", "REJECTED_COORDINATOR", "REJECTED_BY_CONVENER"}})

CheckpointNext ==
    /\ HistoryBelow(MaxCheckpointHistory)
    /\ \/ \E c \in CheckpointSubmitCalls : submit(c.u)
       \/ \E d \in {"approve", "reject"} : hod_final_decision("hod", d, "n")
       \/ /\ SnapshotsBelow(MaxSnapshots)
          /\ \E c \in CheckpointOutlineCalls : save_outline(c.u, c.args[1], c.args[2])
       \/ \E c \in CheckpointUploadCalls : upload_project_report(c.u, c.args[1])
       \/ \E c \in CheckpointUploadCalls : upload_course_result(c.u, c.args[1])
       \/ \E c \in CheckpointUploadCalls : upload_folder_review_report(c.u, c.args[1])
       \/ \E c \in UploadCalls : upload_clo_assessment(c.u, c.args[1])
       \/ \E c \in CheckpointUpdateCalls : partial_update(c.u, c.args[1])
       \/ \E c \in ProbeCalls : check_completeness_endpoint(c.u)

CheckpointSpec == Init /\ [][CheckpointNext]_vars

(***************************************************************************)
(* Concurrent requests.  A handler loads the folder row (and, for an audit *)
(* report, the assignment row), runs its checks on what it loaded, and     *)
(* later saves; no handler takes a lock or runs in a transaction, so       *)
(* other requests may commit between the load and the save.  A request     *)
(* that passed its checks waits in inflight with the objects it loaded.    *)
(***************************************************************************)
Request(op, args) ==
    [op |-> op, args |-> args, f |-> folder,
     a |-> NewAssignment]

AuditRequest(u, args) ==
    [op |-> "submit_audit_report", args |-> args, f |-> folder,
     a |-> audit_assignments[u]]

InflightCount == Cardinality({u \in Users : inflight[u] # NoRequest})

\* the load and the checks of a handler: code is what the checks answer
Begin(u, code, req) ==
    /\ inflight[u] = NoRequest
    /\ InflightCount < MaxInflight
    /\ IF code = 200
       THEN /\ inflight' = [inflight EXCEPT ![u] = req]
            /\ UNCHANGED <<dbvars, response>>
       ELSE /\ response' = code
            /\ UNCHANGED <<dbvars, inflight>>

\* the writes of a handler whose checks passed
Commit(u, op) ==
    /\ inflight[u].op = op
    /\ response' = 200
    /\ inflight' = [inflight EXCEPT ![u] = NoRequest]

begin_coordinator_review(u, act, notes) ==
    Begin(u, CoordinatorReviewCode(folder, u, act), Request("coordinator_review", <<act, notes>>))

commit_coordinator_review(u) ==
    /\ Commit(u, "coordinator_review")
    /\ CoordinatorReviewApply(inflight[u].f, u, inflight[u].args[1], inflight[u].args[2])

begin_unassign_audit(u) ==
    Begin(u, UnassignAuditCode(folder, audit_assignments, u), Request("unassign_audit", <<>>))

commit_unassign_audit(u) ==
    /\ Commit(u, "unassign_audit")
    /\ UnassignAuditApply(inflight[u].f, u)

begin_submit_audit_report(u, decision_val, remarks) ==
    Begin(u, SubmitAuditReportCode(folder, audit_assignments, u, remarks),
          IF u \in DOMAIN audit_assignments
          THEN AuditRequest(u, <<decision_val, remarks>>)
          ELSE Request("submit_audit_report", <<decision_val, remarks>>))

commit_submit_audit_report(u) ==
    /\ Commit(u, "submit_audit_report")
    /\ SubmitAuditReportApply(inflight[u].f, inflight[u].a, u,
                              inflight[u].args[1], inflight[u].args[2])

begin_convener_review(u, act, notes, pdf) ==
    Begin(u, ConvenerReviewCode(folder, audit_assignments, u, act, notes),
          Request("convener_review", <<act, notes, pdf>>))

commit_convener_review(u) ==
    /\ Commit(u, "convener_review")
    /\ ConvenerReviewApply(inflight[u].f, u, inflight[u].args[1], inflight[u].args[2],
                           inflight[u].args[3])

begin_hod_final_decision(u, decision, notes) ==
    Begin(u, HodFinalDecisionCode(folder, audit_assignments, u, decision),
          Request("hod_final_decision", <<decision, notes>>))

commit_hod_final_decision(u) ==
    /\ Commit(u, "hod_final_decision")
    /\ HodFinalDecisionApply(inflight[u].f, u, inflight[u].args[1], inflight[u].args[2])

begin_upload_project_report(u, has_file) ==
    Begin(u, UploadCode(folder, audit_assignments, u, has_file),
          Request("upload_project_report", <<has_file>>))

commit_upload_project_report(u) ==
    /\ Commit(u, "upload_project_report")
    /\ UploadApply(WithMeta([inflight[u].f EXCEPT !.project_report_file = TRUE],
                            "projectReport"))

ConcInit == InitWith({World({"c1", "c2"}, NoUploads)})

ConcNext ==
    /\ HistoryBelow(MaxConcHistory)
    /\ \/ /\ SnapshotsBelow(MaxSnapshots)
          /\ save_outline("fac", NoSection, MidtermDoc)
       \/ upload_clo_assessment("fac", TRUE)
       \/ submit("fac")
       \/ coordinator_review("c1", "approve", "n")
       \/ coordinator_review("c2", "reject", "n")
       \/ assign_audit("conv", {"a1"})
       \/ unassign_audit("conv")
       \/ \E d \in {"approve", "reject"} : submit_audit_report("a1", d, "n")
       \/ \E act \in {"forward_to_hod", "reject"} : convener_review("conv", act, "n", "ok")
       \/ \E d \in {"approve", "reject"} : hod_final_decision("hod", d, "n")
       \/ begin_coordinator_review("c1", "approve", "n")
       \/ begin_coordinator_review("c2", "reject", "n")
       \/ \E u \in {"c1", "c2"} : commit_coordinator_review(u)
       \/ begin_unassign_audit("conv")
       \/ commit_unassign_audit("conv")
       \/ \E d \in {"approve", "reject"} : begin_submit_audit_report("a1", d, "n")
       \/ commit_submit_audit_report("a1")
       \/ \E act \in {"forward_to_hod", "reject"} : begin_convener_review("conv", act, "n", "ok")
       \/ commit_convener_review("conv")
       \/ \E d \in {"approve", "reject"} : begin_hod_final_decision("hod", d, "n")
       \/ commit_hod_final_decision("hod")
       \/ begin_upload_project_report("fac", TRUE)
       \/ commit_upload_project_report("fac")

ConcSpec == ConcInit /\ [][ConcNext]_vars

(***************************************************************************)
(* Concurrent audit reports.  submit_audit_report saves the auditor's      *)
(* assignment row (assignment.save(), committed at once: the project runs  *)
(* in Django's autocommit mode), and only afterwards counts the rows of    *)
(* the folder and routes.  The handler is split at these two points, and   *)
(* every assigned auditor may have a request in flight.                    *)
(***************************************************************************)
MaxAuditHistory == 7

\* get(pk), the access and status checks, the remarks check
audit_report_load(u, decision_val, remarks) ==
    LET code == SubmitAuditReportCode(folder, audit_assignments, u, remarks) IN
    /\ inflight[u] = NoRequest
    /\ IF code = 200
       THEN /\ inflight' = [inflight EXCEPT ![u] = AuditRequest(u, <<decision_val, remarks>>)]
            /\ UNCHANGED <<dbvars, response>>
       ELSE /\ response' = code
            /\ UNCHANGED <<dbvars, inflight>>

\* assignment.save()
audit_report_save(u) ==
    /\ inflight[u].op = "submit_audit_report"
    /\ LET a == ReportedAssignment(inflight[u].a, inflight[u].args[1], inflight[u].args[2]) IN
          /\ audit_assignments' = SaveAssignment(audit_assignments, u, a)
          /\ inflight' = [inflight EXCEPT ![u] = [@ EXCEPT !.op = "audit_report_saved", !.a = a]]
    /\ UNCHANGED <<folder, status_history, notifications, outline_snapshots, log_entries,
                   components, assessments, coordinators, response>>

\* variant: the count of submitted rows leaves out the caller's own row
\* (told apart by C11)
audit_report_route_excluding_own(u) ==
    /\ inflight[u].op = "audit_report_saved"
    /\ AuditRouting(inflight[u].f, inflight[u].a,
                    [x \in DOMAIN audit_assignments |->
                        IF x = u THEN [audit_assignments[x] EXCEPT !.feedback_submitted = FALSE]
                        ELSE audit_assignments[x]], u)
    /\ response' = 200
    /\ inflight' = [inflight EXCEPT ![u] = NoRequest]
    /\ UNCHANGED <<audit_assignments, outline_snapshots, log_entries, components,
                   assessments, coordinators>>

\* the early route on a rejection, or the fresh count and the routing
audit_report_route(u) ==
    /\ inflight[u].op = "audit_report_saved"
    /\ AuditRouting(inflight[u].f, inflight[u].a, audit_assignments, u)
    /\ response' = 200
    /\ inflight' = [inflight EXCEPT ![u] = NoRequest]
    /\ UNCHANGED <<audit_assignments, outline_snapshots, log_entries, components,
                   assessments, coordinators>>

AuditReportCalls ==
    Calls({"a1", "a2"}, {"conv"}, {<<"approve", "n">>, <<"reject", "n">>})

AuditNext ==
    /\ HistoryBelow(MaxAuditHistory)
    /\ \/ /\ SnapshotsBelow(MaxSnapshots)
          /\ save_outline("fac", NoSection, MidtermDoc)
       \/ upload_clo_assessment("fac", TRUE)
       \/ submit("fac")
       \/ coordinator_review("c1", "approve", "n")
       \/ \E ids \in {{"a1"}, {"a1", "a2"}} : assign_audit("conv", ids)
       \/ \E c \in AuditReportCalls : audit_report_load(c.u, c.args[1], c.args[2])
       \/ \E u \in Auditors : audit_report_save(u)
       \/ \E u \in Auditors : audit_report_route(u)

AuditSpec == RoundInit /\ [][AuditNext]_vars

\* the same requests while the convener and the HOD decide: a report that was
\* loaded before a decision saves its row and routes after it
LateReportNext ==
    \/ AuditNext
    \/ /\ HistoryBelow(MaxAuditHistory)
       /\ \/ \E act \in {"forward_to_hod", "reject"} : convener_review("conv", act, "n", "ok")
          \/ \E d \in {"approve", "reject"} : hod_final_decision("hod", d, "n")

LateReportSpec == RoundInit /\ [][LateReportNext]_vars

(***************************************************************************)
(* Audit reports with and without a decision.  A report without the        *)
(* 'decision' field carries the remarks "m", a report with one the remarks  *)
(* "n", so that the stored row tells which kind of report wrote it.         *)
(***************************************************************************)
MaxReportHistory == 6

ReportCalls ==
    Calls({"a1", "a2"}, {"conv"}, {<<"approve", "n">>, <<"reject", "n">>, <<Absent, "m">>})
    \cup {Call("a1", <<"approve", "">>), Call("a1", <<Absent, "">>)}

ReportNext ==
    /\ HistoryBelow(MaxReportHistory)
    /\ \/ /\ SnapshotsBelow(MaxSnapshots)
          /\ save_outline("fac", NoSection, MidtermDoc)
       \/ upload_clo_assessment("fac", TRUE)
       \/ submit("fac")
       \/ coordinator_review("c1", "approve", "n")
       \/ \E ids \in {{"a1"}, {"a1", "a2"}} : assign_audit("conv", ids)
       \/ \E c \in ReportCalls : submit_audit_report(c.u, c.args[1], c.args[2])

ReportSpec == RoundInit /\ [][ReportNext]_vars

(***************************************************************************)
(* Failing side effects.  Notification.objects.create is called outside    *)
(* any try block in hod_final_decision and convener_review; when it raises *)
(* the handler stops where it is and the request is answered 500.  The     *)
(* writes made before the call are committed (autocommit), the ones after  *)
(* it are not made.                                                        *)
(***************************************************************************)
\* hod_final_decision when Notification.objects.create raises: on approve
\* the notification comes before folder.save(), on reject after the save
\* and the history row
hod_final_decision_notification_raising(u, decision, notes) ==
    LET code == HodFinalDecisionCode(folder, audit_assignments, u, decision) IN
    /\ IF code # 200
       THEN response' = code /\ UNCHANGED dbvars
       ELSE /\ response' = 500
            /\ IF decision = "approve"
               THEN UNCHANGED dbvars
               ELSE /\ folder' = [folder EXCEPT !.status = "REJECTED_BY_HOD",
                                                !.hod_reviewed_by = u,
                                                !.hod_decision = "REJECTED",
                                                !.hod_notes = notes]
                    /\ status_history' =
                           Append(status_history, HistoryEntry("REJECTED_BY_HOD", u))
                    /\ UNCHANGED <<notifications, audit_assignments, outline_snapshots,
                                   log_entries, components, assessments, coordinators>>
    /\ UNCHANGED inflight

\* convener_review when Notification.objects.create raises: the folder and
\* the history row are saved before the notification
convener_review_notification_raising(u, act, notes, pdf) ==
    LET code == ConvenerReviewCode(folder, audit_assignments, u, act, notes) IN
    /\ IF code # 200
       THEN response' = code /\ UNCHANGED dbvars
       ELSE /\ response' = 500
            /\ IF act = "forward_to_hod"
               THEN /\ folder' = WithConsolidatedPdf(
                                     [folder EXCEPT !.status = "SUBMITTED_TO_HOD",
                                                    !.convener_notes = notes], pdf)
                    /\ status_history' =
                           Append(status_history, HistoryEntry("SUBMITTED_TO_HOD", u))
               ELSE /\ folder' = [folder EXCEPT !.status = "REJECTED_BY_CONVENER",
                                                !.convener_notes = notes]
                    /\ status_history' =
                           Append(status_history, HistoryEntry("REJECTED_BY_CONVENER", u))
            /\ UNCHANGED <<notifications, audit_assignments, outline_snapshots,
                           log_entries, components, assessments, coordinators>>
    /\ UNCHANGED inflight

MaxFaultHistory == 7

FaultNext ==
    /\ HistoryBelow(MaxFaultHistory)
    /\ \/ /\ SnapshotsBelow(MaxSnapshots)
          /\ save_outline("fac", NoSection, MidtermDoc)
       \/ upload_clo_assessment("fac", TRUE)
       \/ submit("fac")
       \/ coordinator_review("c1", "approve", "n")
       \/ assign_audit("conv", {"a1"})
       \/ \E d \in {"approve", "reject"} : submit_audit_report("a1", d, "n")
       \/ \E act \in {"forward_to_hod", "reject"}, pdf \in {"ok", "fail"} :
             convener_review("conv", act, "n", pdf)
       \/ \E d \in {"approve", "reject"} : hod_final_decision("hod", d, "n")
       \/ \E d \in {"approve", "reject"} :
             hod_final_decision_notification_raising("hod", d, "n")
       \/ \E act \in {"forward_to_hod", "reject"} :
             convener_review_notification_raising("conv", act, "n", "ok")

FaultSpec == RoundInit /\ [][FaultNext]_vars

(***************************************************************************)
(* The content document.  save_outline is called with whole-document and   *)
(* section-scoped patches, up to MaxContentSnapshots times.                *)
(***************************************************************************)
MaxContentSnapshots == 3
MaxContentHistory == 2

\* patches: nested maps that overlap, a list, a scalar under a key that
\* holds a map, and a payload that is no map
PatchA == JDict([a |-> JDict([x |-> JInt(1)]), l |-> JList(<<JInt(1)>>)])
PatchB == JDict([a |-> JDict([y |-> JInt(2)]), l |-> JList(<<JInt(2), JInt(3)>>)])
PatchC == JDict([a |-> JStr("v")])
Patches == {PatchA, PatchB, PatchC, JList(<<JInt(1)>>)}
Sections == {NoSection, "a", "l"}

ContentCalls ==
    Calls({"fac"}, {"fac2", "c1"}, {<<sec, p>> : sec \in Sections, p \in Patches})
    \cup {Call("fac", <<NoSection, JNone>>)}

ContentNext ==
    /\ SnapshotsBelow(MaxContentSnapshots)
    /\ \E c \in ContentCalls : save_outline(c.u, c.args[1], c.args[2])

ContentSpec == RoundInit /\ [][ContentNext]_vars

\* the edit window: the same patches on a folder that the generic update
\* puts in every workflow status, with and without first_activity_completed
WindowNext ==
    \/ /\ SnapshotsBelow(MaxSnapshots)
       /\ \E c \in ContentCalls : save_outline(c.u, c.args[1], c.args[2])
    \/ \E st \in WorkflowStatuses :
          partial_update("admin", [status |-> st, coordinator_notes |-> Absent])
    \/ /\ HistoryBelow(MaxContentHistory)
       /\ hod_final_decision("hod", "approve", "n")

WindowSpec == RoundInit /\ [][WindowNext]_vars

(***************************************************************************)
(* Editing between a rejection and its revision.  The requests of one      *)
(* review cycle, and the instructor saving an outline whose assignments    *)
(* list is empty.                                                          *)
(***************************************************************************)
WithdrawnDoc == JDict([assignments |-> JList(<<>>)])

RedecideNext ==
    /\ HistoryBelow(MaxCycleHistory)
    /\ \/ RoundRequests
       \/ /\ SnapshotsBelow(MaxContentSnapshots)
          /\ save_outline("fac", NoSection, WithdrawnDoc)

RedecideSpec == RoundInit /\ [][RedecideNext]_vars

(***************************************************************************)
(* Two review cycles and what follows.  The instructor saves the content   *)
(* of both checkpoints and uploads the end-of-term documents, and the      *)
(* folder goes through submission, coordinator approval, audit by one      *)
(* auditor, the convener's forward and the HOD's approval as often as      *)
(* MaxTwoCycleHistory allows.                                              *)
(***************************************************************************)
MaxTwoCycleHistory == 14

TwoCycleNext ==
    /\ HistoryBelow(MaxTwoCycleHistory)
    /\ \/ /\ SnapshotsBelow(MaxSnapshots)
          /\ save_outline("fac", NoSection, deep_merge(MidtermDoc, FinalDoc))
       \/ upload_clo_assessment("fac", TRUE)
       \/ upload_project_report("fac", TRUE)
       \/ upload_course_result("fac", TRUE)
       \/ upload_folder_review_report("fac", TRUE)
       \/ submit("fac")
       \/ coordinator_review("c1", "approve", "n")
       \/ assign_audit("conv", {"a1"})
       \/ submit_audit_report("a1", "approve", "n")
       \/ convener_review("conv", "forward_to_hod", "n", "ok")
       \/ hod_final_decision("hod", "approve", "n")

TwoCycleSpec == RoundInit /\ [][TwoCycleNext]_vars

(***************************************************************************)
(* Folders put before the validator.  The instructor saves one outline     *)
(* document, uploads the CLO assessment or not, and submits.  The          *)
(* documents differ in the midterm block, in the number of assignments and *)
(* quizzes, in an entry without model solution, and in the keys under      *)
(* which the client stored the question papers of the assignments: the     *)
(* identifier, the identifier with a leading blank, or a key of its own.   *)
(***************************************************************************)
MaxItems == 3

KeyStyles == {"id", "spaced", "other"}
OtherKeys == <<"a", "b", "c", "d", "e">>
PaperKey(style, i) ==
    CASE style = "id"     -> IntStr(i)
      [] style = "spaced" -> " " \o IntStr(i)
      [] OTHER            -> OtherKeys[i]

\* str.strip() on the keys above
Strip(k) ==
    CASE k = " 1" -> "1" [] k = " 2" -> "2" [] k = " 3" -> "3" [] k = " 4" -> "4"
      [] k = " 5" -> "5" [] OTHER -> k

\* list(d.keys()): the keys in the order the client wrote them, which for
\* the documents here is the order of the entries they belong to
KeyOrder ==
    <<"1", "2", "3", "4", "5", " 1", " 2", " 3", " 4", " 5", "a", "b", "c", "d", "e">>
KeysInOrder(d) ==
    LET pos == {j \in 1..Len(KeyOrder) : KeyOrder[j] \in DOMAIN d.d}
        nth[n \in 0..Cardinality(pos)] ==
            IF n = 0 THEN <<>>
            ELSE LET j == CHOOSE x \in pos :
                              Cardinality({y \in pos : y < x}) = n - 1
                 IN Append(nth[n - 1], KeyOrder[j])
    IN nth[Cardinality(pos)]

\* the payload of the entry at position i of the list (i counts from 1) as
\* the report generator resolves it: exact key, key equal after strip(),
\* key at the same position, last key
PayloadLookup(payloads, item, i) ==
    LET item_id == PyStr(GetD(item, "id", JNone))
        keys == KeysInOrder(payloads)
        same == {j \in 1..Len(keys) : Strip(keys[j]) = Strip(item_id)}
    IN IF item_id # "" /\ item_id \in DOMAIN payloads.d THEN payloads.d[item_id]
       ELSE IF same # {} THEN payloads.d[keys[CHOOSE j \in same : \A k \in same : j <= k]]
       ELSE IF i <= Len(keys) THEN payloads.d[keys[i]]
       ELSE IF Len(keys) > 0 THEN payloads.d[keys[Len(keys)]]
       ELSE EmptyDict

BaseDoc(mid) ==
    IF mid
    THEN JDict([courseDescription |-> X, courseLogEntries |-> JList(<<X>>), attendance |-> X,
                midterm |-> ExamBlock, midtermRecords |-> Records])
    ELSE JDict([courseDescription |-> X, courseLogEntries |-> JList(<<X>>), attendance |-> X])

\* n entries, the entry at position bad (if any) without a model solution
EntriesWith(n, bad, withPaper) ==
    JList([i \in 1..n |->
              IF i = bad THEN JDict([id |-> JInt(i)])
              ELSE IF withPaper THEN Item(i)
              ELSE JDict([id |-> JInt(i), modelSolution |-> X])])

AssignmentPart(n, bad, style) ==
    IF n = 0 THEN EmptyDict
    ELSE JDict([assignments       |-> EntriesWith(n, bad, FALSE),
                assignmentRecords |-> ItemRecords(n),
                assignmentPapers  |->
                    JDict([k \in {PaperKey(style, i) : i \in 1..n} |->
                              JDict([questions |-> JList(<<X>>)])])])

QuizPart(n, bad) ==
    JDict([quizzes |-> EntriesWith(n, bad, TRUE), quizRecords |-> ItemRecords(n)])

ValidatorDoc(p) ==
    deep_merge(BaseDoc(p.mid),
               deep_merge(AssignmentPart(p.na, p.ba, p.style), QuizPart(p.nq, p.bq)))

ValidatorDocs ==
    {ValidatorDoc(p) :
        p \in {q \in [mid : BOOLEAN, na : 0..MaxItems, ba : 0..MaxItems, style : KeyStyles,
                      nq : 1..MaxItems, bq : 0..MaxItems] :
                  /\ q.ba \in {0, q.na}
                  /\ q.bq \in {0, q.nq}
                  /\ q.na = 0 => q.style = "id"}}

ValidatorNext ==
    \/ /\ SnapshotsBelow(MaxSnapshots)
       /\ \E doc \in ValidatorDocs : save_outline("fac", NoSection, doc)
    \/ upload_clo_assessment("fac", TRUE)
    \/ submit("fac")

ValidatorSpec == RoundInit /\ [][ValidatorNext]_vars

(***************************************************************************)
(* Properties.                                                             *)
(***************************************************************************)
LastEntry == status_history[Len(status_history)]

\* C1: in every reachable state the status of the folder is one of the ten
\* statuses of the workflow, whatever operations were called, the generic
\* update endpoint included.
C1_StatusIsOneOfTen == folder.status \in WorkflowStatuses

\* C2: first_activity_completed is monotonic: once true it is true in every
\* later state, whatever operations follow.
C2_FlagNeverReverts ==
    [][folder.first_activity_completed => folder'.first_activity_completed]_vars

\* C3: a successful audit report on an UNDER_AUDIT folder with at least one
\* assignment, by an assigned auditor whose decision is REJECTED, leaves the
\* folder AUDIT_COMPLETED right after the call, however many other
\* assignments are still unsubmitted.
C3_RejectionCompletesAudit ==
    [][\A c \in SubmitAuditReportCalls :
          (/\ folder.status = "UNDER_AUDIT"
           /\ Cardinality(DOMAIN audit_assignments) >= 1
           /\ c.u \in DOMAIN audit_assignments
           /\ submit_audit_report(c.u, c.args[1], c.args[2])
           /\ response' = 200
           /\ audit_assignments'[c.u].decision = "REJECTED")
          => folder'.status = "AUDIT_COMPLETED"]_vars

\* an auditor's rejection has completed the audit while another assignment
\* is still unsubmitted
C3_Witness ==
    /\ folder.status = "AUDIT_COMPLETED"
    /\ response = 200
    /\ LastEntry.status = "AUDIT_COMPLETED"
    /\ LastEntry.changed_by \in DOMAIN audit_assignments
    /\ audit_assignments[LastEntry.changed_by].decision = "REJECTED"
    /\ audit_assignments[LastEntry.changed_by].feedback_submitted_at = Len(status_history) - 1
    /\ \E a \in DOMAIN audit_assignments : ~audit_assignments[a].feedback_submitted

\* the audit round in progress: the row of the latest AssignAudit, the panel
\* it notified, and the panel members who have reported since
RoundStart ==
    LET rows == {i \in 1..Len(status_history) : status_history[i].status = "UNDER_AUDIT"}
    IN IF rows = {} THEN 0 ELSE CHOOSE i \in rows : \A k \in rows : k <= i

Panel ==
    {notifications[i].user : i \in {k \in 1..Len(notifications) :
        /\ notifications[k].notification_type = "AUDIT_ASSIGNED"
        /\ notifications[k].created_at = RoundStart - 1}}

ReportedThisRound(aa, panel, start) ==
    {a \in panel \cap DOMAIN aa :
        aa[a].feedback_submitted /\ aa[a].feedback_submitted_at >= start}

\* C4: for every AssignAudit of a panel of N auditors, in the first round
\* and in every later one, when all reports of the round carry APPROVED the
\* folder is still UNDER_AUDIT after each of the first N-1 distinct
\* auditors' reports and is AUDIT_COMPLETED on the Nth.
C4_PanelOfNCompletesOnNth ==
    [][\A u \in Auditors :
          (/\ folder.status = "UNDER_AUDIT"
           /\ u \in Panel
           /\ submit_audit_report(u, "approve", "n")
           /\ response' = 200
           /\ \A a \in ReportedThisRound(audit_assignments', Panel, RoundStart) :
                  audit_assignments'[a].decision = "APPROVED")
          => folder'.status =
                 IF ReportedThisRound(audit_assignments', Panel, RoundStart) = Panel
                 THEN "AUDIT_COMPLETED" ELSE "UNDER_AUDIT"]_vars

\* C5: a call that returns an error leaves the folder row (status, review
\* metadata, first_activity_completed), the audit assignments and the
\* status history exactly as they were.
C5_ErrorChangesNothing ==
    [][response' # 200 =>
          /\ folder' = folder
          /\ audit_assignments' = audit_assignments
          /\ status_history' = status_history]_vars

\* an audit report was refused on a folder under audit
C5_Witness ==
    /\ response = 400
    /\ folder.status = "UNDER_AUDIT"
    /\ DOMAIN audit_assignments # {}
    /\ LastEntry.status = "UNDER_AUDIT"

MeetsSecondCheckpoint(f) ==
    LET outline == PyOr(f.outline_content, EmptyDict) IN
    /\ Len(GetD(outline, "assignments", JList(<<>>)).l) >= 4
    /\ Len(GetD(outline, "quizzes", JList(<<>>)).l) >= 4
    /\ AnyKey(outline, FinalKeys)
    /\ f.project_report_file
    /\ f.course_result_file
    /\ f.folder_review_report_file

\* C8: once first_activity_completed is true, every later successful Submit
\* has passed the second-checkpoint rules, a re-Submit after a rejection
\* included.
C8_SecondCycleUnderSecondRules ==
    [][(/\ folder.first_activity_completed
        /\ submit(Owner)
        /\ response' = 200)
       => MeetsSecondCheckpoint(folder)]_vars

\* the request of user u returns in this step
Returns(u) == inflight[u] # NoRequest /\ inflight'[u] = NoRequest

\* the answer the checks of a waiting request give on the folder as it is now
CodeNow(u) ==
    LET req == inflight[u] IN
    CASE req.op = "coordinator_review" -> CoordinatorReviewCode(folder, u, req.args[1])
      [] req.op = "unassign_audit" -> UnassignAuditCode(folder, audit_assignments, u)
      [] req.op = "submit_audit_report" ->
             SubmitAuditReportCode(folder, audit_assignments, u, req.args[2])
      [] req.op = "convener_review" ->
             ConvenerReviewCode(folder, audit_assignments, u, req.args[1], req.args[2])
      [] req.op = "hod_final_decision" ->
             HodFinalDecisionCode(folder, audit_assignments, u, req.args[1])
      [] req.op = "upload_project_report" ->
             UploadCode(folder, audit_assignments, u, req.args[1])
      [] OTHER -> 200

\* C9: of two concurrent CoordinatorReview calls on a SUBMITTED folder with
\* conflicting decisions at most one succeeds: the one that comes second
\* gets an error and leaves the first one's status, reviewer and notes.
C9_SecondConflictingReviewFails ==
    [][\A u \in {"c1", "c2"} :
          (/\ Returns(u)
           /\ inflight[u].op = "coordinator_review"
           /\ inflight[u].f.status = "SUBMITTED"
           /\ folder.status \in {"APPROVED_COORDINATOR", "REJECTED_COORDINATOR"}
           /\ folder.coordinator_reviewed_by \notin {u, NoUser}
           /\ folder.status # (IF inflight[u].args[1] = "approve"
                               THEN "APPROVED_COORDINATOR" ELSE "REJECTED_COORDINATOR"))
          => /\ response' # 200
             /\ folder' = folder]_vars

\* C10: under every interleaving a committed status write is a
\* read-modify-write against the status current at commit time: a request
\* changes the status only if its checks pass on the folder as it is when it
\* commits, so no write computed from a stale read undoes the transition
\* another actor has committed since (the latest row of the status history).
C10_StatusWritesAreReadModifyWrite ==
    [][\A u \in Users :
          (/\ Returns(u)
           /\ LastEntry.changed_by # u
           /\ folder'.status # folder.status) => CodeNow(u) = 200]_vars

C12_SideEffectFailureKeepsTransition ==
    [][/\ \A d \in {"approve", "reject"} :
            (/\ HodFinalDecisionCode(folder, audit_assignments, "hod", d) = 200
             /\ hod_final_decision_notification_raising("hod", d, "n"))
            => /\ folder'.status = (IF d = "approve" THEN "APPROVED_BY_HOD"
                                    ELSE "REJECTED_BY_HOD")
               /\ response' = 200
       /\ \A act \in {"forward_to_hod", "reject"} :
            (/\ ConvenerReviewCode(folder, audit_assignments, "conv", act, "n") = 200
             /\ convener_review_notification_raising("conv", act, "n", "ok"))
            => /\ folder'.status = (IF act = "forward_to_hod" THEN "SUBMITTED_TO_HOD"
                                    ELSE "REJECTED_BY_CONVENER")
               /\ response' = 200
       /\ (/\ ConvenerReviewCode(folder, audit_assignments, "conv", "forward_to_hod", "n") = 200
           /\ ~folder.consolidated_pdf
           /\ convener_review("conv", "forward_to_hod", "n", "fail"))
          => /\ folder'.status = "SUBMITTED_TO_HOD"
             /\ folder'.pdf_generation_status = "FAILED"
             /\ response' = 200]_vars

\* the history after the step is the history before it with one row for
\* the folder's new status, made by user u
AppendsEntryBy(u) ==
    status_history' = Append(status_history, HistoryEntry(folder'.status, u))

\* C13: the status history only grows at its end, and every successful
\* transition appends exactly one row holding the folder's resulting status
\* and the caller.
C13_HistoryAppendOnly ==
    [][/\ Len(status_history') >= Len(status_history)
       /\ SubSeq(status_history', 1, Len(status_history)) = status_history
       /\ folder'.status # folder.status => Len(status_history') = Len(status_history) + 1
       /\ (submit("fac") /\ response' = 200) => AppendsEntryBy("fac")
       /\ \A act \in {"approve", "reject"} :
             (coordinator_review("c1", act, "n") /\ response' = 200) => AppendsEntryBy("c1")
       /\ \A ids \in {{"a1"}, {"a1", "a2"}} :
             (assign_audit("conv", ids) /\ response' = 200) => AppendsEntryBy("conv")
       /\ (unassign_audit("conv") /\ response' = 200) => AppendsEntryBy("conv")
       /\ \A u \in {"a1", "a2"}, d \in {"approve", "reject"} :
             (submit_audit_report(u, d, "n") /\ folder'.status # folder.status)
             => AppendsEntryBy(u)
       /\ \A act \in {"forward_to_hod", "reject"} :
             (convener_review("conv", act, "n", "ok") /\ response' = 200)
             => AppendsEntryBy("conv")
       /\ \A d \in {"approve", "reject"} :
             (hod_final_decision("hod", d, "n") /\ response' = 200) => AppendsEntryBy("hod")]_vars

\* a whole cycle is on record: one row per transition, by its caller
C13_Witness ==
    /\ [i \in 1..Len(status_history) |-> status_history[i].status] =
          <<"DRAFT", "SUBMITTED", "APPROVED_COORDINATOR", "UNDER_AUDIT",
            "AUDIT_COMPLETED", "SUBMITTED_TO_HOD", "APPROVED_BY_HOD">>
    /\ [i \in 1..Len(status_history) |-> status_history[i].changed_by] =
          <<"fac", "fac", "c1", "conv", "a1", "conv", "hod">>
    /\ folder.status = "APPROVED_BY_HOD"

\* C14: save_outline changes the document only in DRAFT, the three rejected
\* statuses, or APPROVED_BY_HOD with first_activity_completed; in every
\* other status it answers an error and leaves the document and the
\* snapshots as they were.
C14_ContentEditableOnlyInWindow ==
    [][\A c \in ContentCalls :
          (/\ save_outline(c.u, c.args[1], c.args[2])
           /\ ~(\/ folder.status \in {"DRAFT", "REJECTED_COORDINATOR",
                                      "REJECTED_BY_CONVENER", "REJECTED_BY_HOD"}
                \/ (folder.status = "APPROVED_BY_HOD" /\ folder.first_activity_completed)))
          => /\ response' \in {400, 403, 404}
             /\ folder'.outline_content = folder.outline_content
             /\ outline_snapshots' = outline_snapshots]_vars

\* the document was edited in the second-cycle window
C14_Witness ==
    /\ folder.status = "APPROVED_BY_HOD"
    /\ folder.first_activity_completed
    /\ response = 200
    /\ Len(outline_snapshots) = 1
    /\ folder.outline_content = PatchA

C17_OtherRequestsLeaveContentAndStatus ==
    [][(\/ \E c \in UploadCalls : upload_clo_assessment(c.u, c.args[1])
        \/ \E c \in PartialUpdateCalls : partial_update(c.u, c.args[1])
        \/ \E c \in ProbeCalls : check_completeness_endpoint(c.u))
       => /\ folder'.outline_content = folder.outline_content
          /\ folder'.status = folder.status]_vars

\* the replacement value a section-scoped request supplies: the payload,
\* or the entry of the payload under the section's name when it is wrapped
SuppliedValue(section, payload) ==
    IF payload.t = "dict" /\ section \in DOMAIN payload.d THEN payload.d[section] ELSE payload

\* C18: a successful section-scoped save_outline stores the supplied
\* replacement value (map, list or scalar) under the named key and leaves
\* every other top-level key as it was.
C18_SectionReplacedWholesale ==
    [][\A c \in ContentCalls :
          (/\ c.args[1] # NoSection
           /\ save_outline(c.u, c.args[1], c.args[2])
           /\ response' = 200)
          => /\ DOMAIN folder'.outline_content.d = DOMAIN folder.outline_content.d \cup {c.args[1]}
             /\ folder'.outline_content.d[c.args[1]] = SuppliedValue(c.args[1], c.args[2])
             /\ \A k \in DOMAIN folder.outline_content.d \ {c.args[1]} :
                   folder'.outline_content.d[k] = folder.outline_content.d[k]]_vars

\* the auditor whose REJECTED report closed the audit round in progress: the
\* row after the round's UNDER_AUDIT row is that auditor's AUDIT_COMPLETED
\* row, written together with the rejection notice to the convener
RejectionCompleted(x) ==
    \E i \in 2..Len(status_history) :
        /\ i > RoundStart
        /\ status_history[i].status = "AUDIT_COMPLETED"
        /\ status_history[i].changed_by = x
        /\ status_history[i - 1].status = "UNDER_AUDIT"
        /\ \E k \in 1..Len(notifications) :
               /\ notifications[k].title = "Audit Rejected by Auditor"
               /\ notifications[k].created_at = i - 1

Reports(aa) ==
    [x \in DOMAIN aa |-> <<aa[x].decision, aa[x].remarks, aa[x].feedback_submitted>>]

\* C20: a report is accepted only while the folder is UNDER_AUDIT or
\* AUDIT_COMPLETED and only from an auditor who holds an assignment for the
\* folder, and while the folder is and stays SUBMITTED_TO_HOD, APPROVED_BY_HOD
\* or REJECTED_BY_HOD no assignment's decision, remarks or submitted flag
\* changes.
C20_ReportsOnlyDuringAudit ==
    /\ [][\A u \in Auditors : \A d \in {"approve", "reject"} :
            (audit_report_load(u, d, "n") /\ response' = 200)
            => /\ folder.status \in {"UNDER_AUDIT", "AUDIT_COMPLETED"}
               /\ u \in DOMAIN audit_assignments]_vars
    /\ [][(folder.status \in HodStatuses /\ folder'.status \in HodStatuses)
            => Reports(audit_assignments') = Reports(audit_assignments)]_vars

\* the same for requests that run one after the other
C20_Sequential ==
    /\ [][\A c \in SubmitAuditReportCalls :
            (submit_audit_report(c.u, c.args[1], c.args[2]) /\ response' = 200)
            => /\ folder.status \in {"UNDER_AUDIT", "AUDIT_COMPLETED"}
               /\ c.u \in DOMAIN audit_assignments]_vars
    /\ [][(folder.status \in HodStatuses /\ folder'.status \in HodStatuses)
            => Reports(audit_assignments') = Reports(audit_assignments)]_vars

\* C21: right after every successful AssignAudit, in the first round and in
\* every later one, the folder is UNDER_AUDIT and holds exactly one assignment
\* row per selected auditor and no other row, each row with decision PENDING
\* and not submitted.
C21_AssignCreatesPendingRows ==
    [][\A ids \in {{"a1"}, {"a1", "a2"}} :
          (assign_audit("conv", ids) /\ response' = 200)
          => /\ folder'.status = "UNDER_AUDIT"
             /\ DOMAIN audit_assignments' = ids
             /\ \A a \in ids :
                    /\ audit_assignments'[a].decision = "PENDING"
                    /\ ~audit_assignments'[a].feedback_submitted]_vars

\* C22: UnassignAudit succeeds only for a convener on a folder that is
\* UNDER_AUDIT, after it the folder has no assignment rows and is
\* APPROVED_COORDINATOR, and no other request removes an assignment row.
C22_OnlyUnassignRemovesRows ==
    /\ [][\A c \in UnassignAuditCalls :
            (unassign_audit(c.u) /\ response' = 200)
            => /\ Role(c.u) = "CONVENER"
               /\ folder.status = "UNDER_AUDIT"
               /\ DOMAIN audit_assignments' = {}
               /\ folder'.status = "APPROVED_COORDINATOR"]_vars
    /\ [][(DOMAIN audit_assignments \ DOMAIN audit_assignments' # {})
            => \E c \in UnassignAuditCalls : unassign_audit(c.u) /\ response' = 200]_vars

C22_Witness ==
    /\ folder.status = "APPROVED_COORDINATOR"
    /\ DOMAIN audit_assignments = {}
    /\ response = 200
    /\ Len(status_history) >= 2
    /\ status_history[Len(status_history) - 1].status = "UNDER_AUDIT"
    /\ LastEntry = HistoryEntry("APPROVED_COORDINATOR", "conv")

\* C23: a report is accepted only with non-empty overall remarks, and after
\* an accepted report that carries no decision the recorded decision of the
\* auditor's assignment is PENDING, also when the auditor had recorded
\* APPROVED or REJECTED before.
C23_NoDecisionRecordsPending ==
    [][\A c \in ReportCalls :
          (submit_audit_report(c.u, c.args[1], c.args[2]) /\ response' = 200)
          => /\ c.args[2] # ""
             /\ c.args[1] = Absent => audit_assignments'[c.u].decision = "PENDING"]_vars

\* C23, as the handler behaves: a report is accepted only with non-empty
\* overall remarks, and an accepted report that carries no decision leaves the
\* recorded decision of the auditor's assignment as it was before the call:
\* PENDING on a row that never carried a decision, the earlier APPROVED or
\* REJECTED otherwise.
C23_NoDecisionKeepsDecision ==
    [][\A c \in ReportCalls :
          (submit_audit_report(c.u, c.args[1], c.args[2]) /\ response' = 200)
          => /\ c.args[2] # ""
             /\ c.args[1] = Absent
                => audit_assignments'[c.u].decision = audit_assignments[c.u].decision]_vars

C23_Witness ==
    /\ response = 200
    /\ DOMAIN audit_assignments = {"a1", "a2"}
    /\ audit_assignments["a1"].remarks = "m"
    /\ audit_assignments["a1"].decision = "REJECTED"
    /\ audit_assignments["a2"].remarks = "m"
    /\ audit_assignments["a2"].decision = "PENDING"
    /\ audit_assignments["a2"].feedback_submitted

\* C24: an accepted audit report leaves the status of the folder as it is or
\* moves it to AUDIT_COMPLETED, never to SUBMITTED_TO_HOD or any other
\* status, with or without rejections in the panel, and the status of a
\* folder that is AUDIT_COMPLETED changes only by a ConvenerReview.
C24_OnlyConvenerLeavesAuditCompleted ==
    /\ [][\A u \in Auditors : \A d \in {"approve", "reject"} :
            (submit_audit_report(u, d, "n") /\ response' = 200)
            => folder'.status \in {folder.status, "AUDIT_COMPLETED"}]_vars
    /\ [][(folder.status = "AUDIT_COMPLETED" /\ folder'.status # "AUDIT_COMPLETED")
            => \E act \in {"forward_to_hod", "reject"} :
                   convener_review("conv", act, "n", "ok") /\ response' = 200]_vars

\* the HOD approvals that have succeeded on the folder: each writes one
\* APPROVED_BY_HOD row to the status history
ApprovalsByHod ==
    {i \in 1..Len(status_history) : status_history[i].status = "APPROVED_BY_HOD"}

\* C25: an HOD approval sets first_activity_completed on the first approval
\* of the folder and leaves it set afterwards, and in every reachable state
\* the flag is set if and only if at least one HOD approval has succeeded on
\* the folder.
C25_FlagIffApprovedOnce ==
    /\ [](folder.first_activity_completed <=> ApprovalsByHod # {})
    /\ [][(hod_final_decision("hod", "approve", "n") /\ response' = 200)
            => /\ folder'.first_activity_completed
               /\ ApprovalsByHod = {} => ~folder.first_activity_completed]_vars
    /\ [][folder.first_activity_completed => folder'.first_activity_completed]_vars

\* the reasons Submit returns in 'details' when the validator refuses the
\* folder as it is
Details == ValidateSubmission(folder, log_entries, components).errors

DeclaredEntries(f, listKey) == GetD(PyOr(f.outline_content, EmptyDict), listKey, JList(<<>>)).l

\* the requirements of the first checkpoint that the folder does not meet,
\* and the reasons that speak of each
UnmetAtFirstCheckpoint(f) ==
    LET outline == PyOr(f.outline_content, EmptyDict) IN
    (IF ~AnyKey(outline, MidtermKeys) THEN {"midterm"} ELSE {})
    \cup (IF Len(DeclaredEntries(f, "assignments")) < RequiredFirst THEN {"assignments"} ELSE {})
    \cup (IF Len(DeclaredEntries(f, "quizzes")) < RequiredFirst THEN {"quizzes"} ELSE {})
    \cup (IF ~f.clo_assessment_file THEN {"clo"} ELSE {})

ReasonCodes(requirement) ==
    CASE requirement = "midterm"     -> {"BEFORE_MIDTERM", "MIDTERM_MANDATORY"}
      [] requirement = "assignments" -> {"ASSIGNMENT_COUNT"}
      [] requirement = "quizzes"     -> {"QUIZ_COUNT"}
      [] OTHER                       -> {"CLO_ASSESSMENT"}

\* C26: the validator is not fail-fast: when Submit refuses a non-empty
\* folder that misses several requirements of the first checkpoint at once
\* (midterm block, number of assignments, number of quizzes, CLO assessment),
\* the reasons it returns contain a reason for each of them.
C26_ReasonForEachUnmetRequirement ==
    [][(/\ submit("fac")
        /\ folder.status = "DRAFT"
        /\ AnyKey(folder.outline_content, OutlineKeys)
        /\ response' = 400)
       => \A r \in UnmetAtFirstCheckpoint(folder) :
              \E i \in 1..Len(Details) : Details[i].code \in ReasonCodes(r)]_vars

\* every declared entry of the list passes the per-entry rule of the
\* validator: question set, model solution, the three sample records
AllEntriesComplete(f, listKey, recordsKey, papersKey, solutionsKey, prefix) ==
    \A i \in 1..Len(DeclaredEntries(f, listKey)) :
        ItemReasons(PyOr(f.outline_content, EmptyDict), DeclaredEntries(f, listKey)[i], i,
                    recordsKey, papersKey, solutionsKey, prefix) = <<>>

\* C27: at the first checkpoint Submit passes the validator only if the
\* folder declares at least 2 assignments and at least 2 quizzes and every
\* declared assignment and quiz has a question set, a model solution and the
\* three sample records, an entry beyond the minimum count included.
C27_EveryDeclaredEntryComplete ==
    [][(/\ submit("fac")
        /\ folder.status = "DRAFT"
        /\ response' = 200)
       => /\ Len(DeclaredEntries(folder, "assignments")) >= RequiredFirst
          /\ Len(DeclaredEntries(folder, "quizzes")) >= RequiredFirst
          /\ AllEntriesComplete(folder, "assignments", "assignmentRecords",
                                "assignmentPapers", "assignmentSolutions", "ASSIGNMENT")
          /\ AllEntriesComplete(folder, "quizzes", "quizRecords",
                                "quizPapers", "quizSolutions", "QUIZ")]_vars

\* the folder with the question papers of its assignments stored under the
\* identifiers of the entries that the three-tier lookup gives them to
PapersResolved(f) ==
    LET outline == PyOr(f.outline_content, EmptyDict)
        items == DeclaredEntries(f, "assignments")
        papers == GetD(outline, "assignmentPapers", EmptyDict)
        ids == {PyStr(GetD(items[i], "id", JNone)) : i \in 1..Len(items)}
        resolved == [k \in ids |->
                        LET i == CHOOSE j \in 1..Len(items) :
                                     PyStr(GetD(items[j], "id", JNone)) = k
                        IN PayloadLookup(papers, items[i], i)]
    IN IF Len(items) = 0 THEN f
       ELSE [f EXCEPT !.outline_content =
                 JDict([k \in DOMAIN outline.d |->
                           IF k = "assignmentPapers" THEN JDict(resolved) ELSE outline.d[k]])]

\* C28: the validator finds the payload of an assessment entry as the report
\* generator does, by exact key, then by the key equal after trimming, then
\* by position: Submit accepts a folder exactly when the folder with every
\* question paper stored under the identifier of the entry the three-tier
\* lookup resolves it to passes the validator.
C28_ValidatorResolvesInThreeTiers ==
    [][(/\ submit("fac")
        /\ folder.status = "DRAFT")
       => (response' = 200
           <=> ValidateSubmission(PapersResolved(folder), log_entries, components).ok)]_vars

\* what the second checkpoint asks beyond the first, and the reason that
\* names each shortfall
SecondCheckpointShortfalls(f) ==
    LET outline == PyOr(f.outline_content, EmptyDict) IN
    (IF Len(DeclaredEntries(f, "assignments")) < RequiredSecond THEN {"ASSIGNMENT_COUNT"} ELSE {})
    \cup (IF Len(DeclaredEntries(f, "quizzes")) < RequiredSecond THEN {"QUIZ_COUNT"} ELSE {})
    \cup (IF ~AnyKey(outline, FinalKeys) THEN {"FINAL_MANDATORY"} ELSE {})
    \cup (IF ~f.project_report_file THEN {"PROJECT_REPORT"} ELSE {})
    \cup (IF ~f.course_result_file THEN {"COURSE_RESULT"} ELSE {})
    \cup (IF ~f.folder_review_report_file THEN {"REVIEW_REPORT"} ELSE {})

DetailCodes == {Details[i].code : i \in 1..Len(Details)}

FirstCheckpointContent(f) ==
    /\ \A k \in DOMAIN MidtermDoc.d : Get(f.outline_content, k) = MidtermDoc.d[k]
    /\ f.clo_assessment_file

Unreported(a) == ~a.feedback_submitted /\ a.decision = "PENDING"

ApprovedCycles ==
    {i \in ApprovalsByHod :
        \E j \in 1..(i - 1) :
            /\ status_history[j].status = "SUBMITTED"
            /\ \A k \in ApprovalsByHod : k < i => k < j}

\* C31: the review cycle runs twice and no more: once the HOD has approved
\* the second cycle, no Submit moves the folder back to SUBMITTED.
C31_NoThirdCycle ==
    [][(Cardinality(ApprovedCycles) >= 2 /\ submit("fac"))
       => (response' # 200 /\ folder'.status # "SUBMITTED")]_vars

C33_SkipValidationSubmits ==
    [][(/\ folder = NewFolder
        /\ log_entries = <<>>
        /\ components = {}
        /\ coordinators # {}
        /\ submit(Owner))
       => (response' = 200 /\ folder'.status = "SUBMITTED")]_vars

\* the statuses in which save_outline refuses to write
LockedStatuses ==
    {"SUBMITTED", "APPROVED_COORDINATOR", "UNDER_AUDIT", "AUDIT_COMPLETED", "SUBMITTED_TO_HOD"}

\* C34: reviewers only ever see content that passed validation: while the
\* folder is in a status where the content cannot be saved, its content is
\* the document the validator accepted at the latest successful Submit.
\* Stated for the first cycle, where that document was accepted under the
\* rules of the first checkpoint: the content under review still passes them.
C34_ReviewersSeeValidatedContent ==
    (folder.status \in LockedStatuses /\ ~folder.first_activity_completed) =>
        ValidateSubmission([folder EXCEPT !.status = "DRAFT"], log_entries, components).ok

\* C35: whenever the folder is AUDIT_COMPLETED, one of its audit assignments
\* is REJECTED or every one of them has been submitted, also after an auditor
\* has replaced an earlier REJECTED by APPROVED while others are pending.
C35_AuditCompletedIsJustified ==
    folder.status = "AUDIT_COMPLETED" =>
        (AnyRejected(audit_assignments) \/ AllSubmitted(audit_assignments))

\* C36: in every reachable state the status of the most recent status
\* history entry of a folder made by the creation operation is the folder's
\* current status.
C36_HistoryTracksStatus ==
    LastEntry.status = folder.status

\* C37: whenever the folder is UNDER_AUDIT or AUDIT_COMPLETED it has at
\* least one audit assignment, at most one per auditor (the rows are keyed by
\* auditor, as unique_together keeps them), and no assigned auditor has the
\* HOD role.
C37_AuditHasPanel ==
    folder.status \in {"UNDER_AUDIT", "AUDIT_COMPLETED"} =>
        /\ DOMAIN audit_assignments # {}
        /\ Cardinality(DOMAIN audit_assignments) <= Cardinality(Users)
        /\ \A a \in DOMAIN audit_assignments : a \in Users /\ Role(a) # "HOD"

====
